---- MODULE Spec2Model ----
(***************************************************************************)
(* Bounded asynchronous side-effect dispatch of the Go micro-service:      *)
(* AuditLogger, NotificationService and ErrorHandler (package utils), each *)
(* a buffered channel, one consumer goroutine and a sync.WaitGroup, and    *)
(* the shutdown sequence of main.                                          *)
(*                                                                         *)
(* Two environments drive the same dispatcher code:                        *)
(*   Spec / FairSpec   the dispatcher used as a library: producers call    *)
(*                     the submit functions and an owner calls             *)
(*                     AuditLogger.Close, under the documented contract    *)
(*                     (Close at most once, producers stopped before it).  *)
(*   FairProg          the program: producers are goroutines spawned by    *)
(*                     request handlers, main waits for a signal, shuts    *)
(*                     the server down and returns.                        *)
(***************************************************************************)
EXTENDS Integers, Sequences, FiniteSets, Bags, TLC

\* ---------------------------------------------------------------- bounds
\* Capacity of each dispatcher channel (make(chan T, 10000) in the source,
\* scaled down).
Cap == 2
\* Number of submit calls made over a run.
MaxSubmits == 3
\* Last tick of the wall clock.
MaxTime == 3
\* Clock ticks to the second (time.Now() is finer than the second that
\* the logger and RFC3339 print).
TicksPerSecond == 2
\* Requests that enter the admission gate.
MaxReqs == 4
\* Requests that enter the metrics middleware.
MaxObs == 2
\* Requests to the user endpoints, and calls of UserService.Clear.
MaxCalls == 3
MaxClears == 1
\* Calls of Allow made beyond the burst of a fresh limiter.
MaxExtra == 2
\* var globalLimiter = rate.NewLimiter(rate.Limit(1000), 5000)
GlobalRate == 1000
GlobalBurst == 5000
Kinds == {"audit", "notification", "error"}
\* Only AuditLogger has a Close method.
Closable == {"audit"}
\* Producer goroutines (go utils.LogUserAction(...), go utils.LogError(...)).
Procs == {"p1", "p2"}
\* Goroutines that use a singleton for the first time.
Callers == {"c1", "c2", "c3"}
\* Payloads, numbered in the order of the submit calls.
Ids == 1..MaxSubmits

VARIABLES
    created,   \* created[k]: once.Do of kind k has run (instance exists)
    logChan,   \* logChan[k]: buffered channel contents, oldest first
    wg,        \* wg[k]: sync.WaitGroup counter
    closed,    \* closed[k]: close(chan) has been executed
    sink,      \* sink[k]: lines written by the logger, records [tag, id]
    cpc,       \* cpc[k]: position of the consumer goroutine
    held,      \* held[k]: entry the consumer received and is processing (0: none)
    ppc,       \* ppc[p]: position of producer p inside a submit call
    pkind,     \* pkind[p]: dispatcher kind of p's current call
    pid,       \* pid[p]: payload of p's current call (0: none)
    nsub,      \* number of submit calls made so far (payloads are 1..nsub)
    subs,      \* subs[k]: payloads submitted to kind k (history)
    enq,       \* enq[k]: payloads accepted by the channel, in send order (history)
    closepc,   \* position of the caller of AuditLogger.Close
    mainpc,    \* position of main
    now,       \* wall clock, in ticks (TicksPerSecond ticks to the second)
    tsChan,    \* tsChan[k]: queued entries with their fields
    tsLines,   \* tsLines[k]: lines written, with the logger's prefix time
    tsSubAt,   \* tsSubAt[i]: tick at which payload i was submitted (history)
    tsN,       \* submit calls made in the timestamp scenario
    lost,      \* lost[k]: payloads whose write to the primary sink failed (history)
    onceDone,  \* onceDone[k]: the done flag of the sync.Once of kind k
    onceMu,    \* onceMu[k]: holder of the mutex of that sync.Once ("none": free)
    inst,      \* inst[k]: the package variable (0: nil, n: the n-th instance built)
    ninst,     \* ninst[k]: instances constructed so far
    ncons,     \* ncons[k]: consumer goroutines started so far
    opc,       \* opc[c]: position of caller c inside GetAuditLogger and friends
    okind,     \* okind[c]: kind caller c asks for
    oslow,     \* oslow[c]: c found the done flag clear on entry (history)
    got,       \* got[c]: instance returned to c (0: none yet)
    rl,        \* a RateLimiter built by NewRateLimiter (<<>>: not built yet)
    bCalls,    \* calls of rl.Allow() made so far
    bOk,       \* calls of rl.Allow() that returned true
    bLast,     \* result of the latest rl.Allow() (<<>>: none yet)
    lims,      \* the rate.Limiter objects built so far
    mu,        \* mu[j]: the request holding the mutex of limiter j, or "free"
    gh,        \* gh[j]: history of limiter j (configuration, admissions)
    glob,      \* the variable globalLimiter: index into lims
    cfgLeft,   \* configurations SetGlobalLimiter may install ({}: it was called)
    gpc,       \* gpc[r]: position of request r in RateLimitMiddleware
    glim,      \* glim[r]: the limiter r loaded from globalLimiter
    gstart,    \* gstart[r]: the value of globalLimiter when r started
    gt,        \* gt[r]: the time at which r's Allow was decided
    gloc,      \* gloc[r]: what r's Allow computed under the mutex
    gres,      \* gres[r]: the result of r's Allow (<<>>: none yet)
    gstatus,   \* gstatus[r]: status written by the middleware (0: none)
    gnext,     \* gnext[r]: calls of next.ServeHTTP for r
    gspawn,    \* gspawn[r]: LogError goroutines started for r
    nreq,      \* requests that entered the middleware
    nrej,      \* requests whose Allow returned false
    pendErr,   \* LogError goroutines started and not yet run
    errSubs,   \* error records submitted by LogError goroutines
    hits,      \* the counter rate_limit_hits_total
    mpc,       \* mpc[q]: position of request q in MetricsMiddleware
    mreq,      \* mreq[q]: method and URL path of request q
    wrapped,   \* wrapped[q]: the responseWriter wrapping q's response
    mlabel,    \* mlabel[q]: the path label computed for q
    mallow,    \* mallow[q]: the answer of the admission gate (<<>>: none yet)
    mnext,     \* mnext[q]: calls of MetricsMiddleware's next handler for q
    mtouch,    \* mtouch[q]: metrics changed on behalf of q (history)
    nobs,      \* requests that entered MetricsMiddleware
    ndone,     \* requests other than /metrics that left MetricsMiddleware
    TotalRequests,     \* http_requests_total: bag of <<method, endpoint, status>>
    RequestDuration,   \* http_request_duration_seconds: bag of <<method, endpoint>>
    RequestsInFlight,  \* http_requests_in_flight
    ErrorsTotal,       \* http_errors_total: bag of <<method, endpoint, error_type>>
    users,     \* UserService.users: the stored users by ID
    idCounter, \* UserService.idCounter
    usmu,      \* holder of UserService.mu ("free": nobody)
    upc,       \* upc[c]: position of caller c inside Create
    uin,       \* uin[c]: the user c passed to Create, after Sanitize
    unewID,    \* unewID[c]: the ID c drew from the counter (0: none)
    ucount,    \* ucount[c]: len(s.users) read by c under the lock
    uerr,      \* uerr[c]: error returned by c's latest Create ("": nil)
    clrpc,     \* position of the caller of Clear
    ActiveUsers, \* the gauge active_users
    issued,    \* IDs returned by Create since the last Clear, as a bag (history)
    overwrote, \* IDs at which a Create replaced a stored user (history)
    heap,      \* the User objects: heap[a] is the object at address a
    ureq,      \* ureq[c]: the request handler c is serving
    uret,      \* uret[c]: the pointers the user service returned to c
    ustatus,   \* ustatus[c]: the status c's handler answers (0: none yet)
    auditLog,  \* user IDs of the CREATE events submitted to the audit logger
    ncalls,    \* requests to the user endpoints made so far
    nclear     \* calls of Clear made so far

\* Capture timestamps (clock and a dispatcher whose entries carry them).
tsVars == <<now, tsChan, tsLines, tsSubAt, tsN>>

\* State outside the dispatcher core; the dispatcher actions leave it alone.
\* Lazy construction of the singletons.
onceVars == <<onceDone, onceMu, inst, ninst, ncons, opc, okind, oslow, got>>

\* A RateLimiter under a burst of calls.
burstVars == <<rl, bCalls, bOk, bLast>>

\* The admission gate.
gateVars == <<lims, mu, gh, glob, cfgLeft, gpc, glim, gstart, gt, gloc, gres, gstatus,
              gnext, gspawn, nreq, nrej, pendErr, errSubs, hits>>

\* The metrics middleware and its metrics.
obsVars == <<mpc, mreq, wrapped, mlabel, mallow, mnext, mtouch, nobs, ndone,
             TotalRequests, RequestDuration, RequestsInFlight, ErrorsTotal>>

\* The user service and its gauge.
usrVars == <<users, heap, idCounter, usmu, upc, ureq, uin, unewID, ucount, uerr,
             uret, ustatus, clrpc, ActiveUsers, issued, overwrote, auditLog,
             ncalls, nclear>>

\* The state of the application around the dispatchers and the gate.
appVars == <<obsVars, usrVars>>

ext == <<tsVars, lost, onceVars, burstVars, gateVars, appVars>>

vars == <<created, logChan, wg, closed, sink, cpc, held, ppc, pkind, pid,
          nsub, subs, enq, closepc, mainpc, ext>>

dispVars == <<created, logChan, wg, closed, sink, cpc, held>>
prodVars == <<ppc, pkind, pid, nsub, subs>>

\* ------------------------------------------------------- channel helpers
\* Off by one: a buffer at capacity still accepts a send.
ChanFullOffByOne(q) == Len(q) > Cap

\* A buffer that is never full: every send is accepted.
ChanFullNever(q) == FALSE

\* A buffered channel accepts a send without blocking while it is not full.
ChanFull(q) == Len(q) >= Cap

\* A send that puts the element at the head of the buffer.
ChanSendFront(q, e) == <<e>> \o q

\* A send appends at the tail of the buffer.
ChanSend(q, e) == Append(q, e)

\* A receive takes the oldest element of the buffer.
ChanHead(q) == Head(q)

ChanRest(q) == Tail(q)

\* Lines of sink[k] with a given tag, as the sequence of their payloads.
RECURSIVE Tagged(_, _)
Tagged(s, t) ==
    IF s = <<>> THEN <<>>
    ELSE IF Head(s).tag = t THEN <<Head(s).id>> \o Tagged(Tail(s), t)
         ELSE Tagged(Tail(s), t)

Primary(k) == Tagged(sink[k], "PRIMARY")

Overflow(k) == Tagged(sink[k], "OVERFLOW")

Range(s) == {s[i] : i \in 1..Len(s)}

\* The process is alive: main has not returned.
Running == mainpc # "exited"

\* ------------------------------------------------------------------ Init
\* Initial state of the timestamp scenario: clock at 0, nothing submitted.
TsInit ==
    /\ now = 0
    /\ tsChan = [k \in Kinds |-> <<>>]
    /\ tsLines = [k \in Kinds |-> <<>>]
    /\ tsSubAt = [i \in Ids |-> 0]
    /\ tsN = 0

\* var auditLogger *AuditLogger; var once sync.Once: nil and not done.
OnceInit ==
    /\ onceDone = [k \in Kinds |-> FALSE]
    /\ onceMu = [k \in Kinds |-> "none"]
    /\ inst = [k \in Kinds |-> 0]
    /\ ninst = [k \in Kinds |-> 0]
    /\ ncons = [k \in Kinds |-> 0]
    /\ opc = [c \in Callers |-> "idle"]
    /\ okind = [c \in Callers |-> "audit"]
    /\ oslow = [c \in Callers |-> FALSE]
    /\ got = [c \in Callers |-> 0]

\* No RateLimiter built yet.
BurstInit ==
    /\ rl = <<>>
    /\ bCalls = 0
    /\ bOk = 0
    /\ bLast = <<>>

\* Requests in the middleware at the same time.
Reqs == {"r1", "r2"}

\* Configurations installed by SetGlobalLimiter: <<rate, burst>>.
SmallConfigs == {<<1, 2>>, <<2, 1>>}

\* The history of a limiter built at tick t with configuration c.
NewHistory(c, t) ==
    [cfg |-> c, adm |-> [u \in 0..MaxTime |-> 0],
     at |-> t, tok |-> c[2] * TicksPerSecond,
     iAt |-> 0, iTok |-> 0, iCalls |-> 0, iOk |-> 0]

\* var globalLimiter = rate.NewLimiter(rate.Limit(1000), 5000); no request yet.
GateInit ==
    /\ lims = <<[limit |-> GlobalRate, burst |-> GlobalBurst,
                 tokens |-> GlobalBurst * TicksPerSecond, last |-> 0]>>
    /\ mu = <<"free">>
    /\ gh = <<NewHistory(<<GlobalRate, GlobalBurst>>, 0)>>
    /\ glob = 1
    /\ cfgLeft = SmallConfigs
    /\ gpc = [r \in Reqs |-> "idle"]
    /\ glim = [r \in Reqs |-> 0]
    /\ gstart = [r \in Reqs |-> 0]
    /\ gt = [r \in Reqs |-> 0]
    /\ gloc = [r \in Reqs |-> <<>>]
    /\ gres = [r \in Reqs |-> <<>>]
    /\ gstatus = [r \in Reqs |-> 0]
    /\ gnext = [r \in Reqs |-> 0]
    /\ gspawn = [r \in Reqs |-> 0]
    /\ nreq = 0
    /\ nrej = 0
    /\ pendErr = 0
    /\ errSubs = 0
    /\ hits = 0

\* Requests in MetricsMiddleware at the same time.
Obs == {"q1", "q2"}

\* Goroutines calling UserService.Create.
Creators == {"u1", "u2"}

\* GetUserService: an empty map and idCounter 0; nobody inside the service.
UsrInit ==
    /\ users = <<>>
    /\ idCounter = 0
    /\ usmu = "free"
    /\ upc = [c \in Creators |-> "idle"]
    /\ uin = [c \in Creators |-> <<>>]
    /\ unewID = [c \in Creators |-> 0]
    /\ ucount = [c \in Creators |-> 0]
    /\ uerr = [c \in Creators |-> ""]
    /\ clrpc = "idle"
    /\ ActiveUsers = 0
    /\ issued = EmptyBag
    /\ overwrote = {}
    /\ ncalls = 0
    /\ heap = <<>>
    /\ ureq = [c \in Creators |-> <<>>]
    /\ uret = [c \in Creators |-> {}]
    /\ ustatus = [c \in Creators |-> 0]
    /\ auditLog = {}
    /\ nclear = 0

\* No request yet; every metric is at zero.
ObsInit ==
    /\ mpc = [q \in Obs |-> "idle"]
    /\ mreq = [q \in Obs |-> <<>>]
    /\ wrapped = [q \in Obs |-> <<>>]
    /\ mlabel = [q \in Obs |-> ""]
    /\ mallow = [q \in Obs |-> <<>>]
    /\ mnext = [q \in Obs |-> 0]
    /\ mtouch = [q \in Obs |-> {}]
    /\ nobs = 0
    /\ ndone = 0
    /\ TotalRequests = EmptyBag
    /\ RequestDuration = EmptyBag
    /\ RequestsInFlight = 0
    /\ ErrorsTotal = EmptyBag

ExtInit ==
    /\ TsInit
    /\ lost = [k \in Kinds |-> {}]
    /\ OnceInit
    /\ BurstInit
    /\ GateInit
    /\ ObsInit
    /\ UsrInit

Init ==
    /\ created = [k \in Kinds |-> FALSE]
    /\ logChan = [k \in Kinds |-> <<>>]
    /\ wg = [k \in Kinds |-> 0]
    /\ closed = [k \in Kinds |-> FALSE]
    /\ sink = [k \in Kinds |-> <<>>]
    /\ cpc = [k \in Kinds |-> "none"]
    /\ held = [k \in Kinds |-> 0]
    /\ ppc = [p \in Procs |-> "idle"]
    /\ pkind = [p \in Procs |-> "audit"]
    /\ pid = [p \in Procs |-> 0]
    /\ nsub = 0
    /\ subs = [k \in Kinds |-> {}]
    /\ enq = [k \in Kinds |-> <<>>]
    /\ closepc = "idle"
    /\ mainpc = "serving"
    /\ ExtInit

\* ------------------------------------------------------------- producers
\* A caller invokes utils.LogUserAction / SendUserNotification / LogError
\* with a fresh payload.  Contract of Close: no submit once Close is called.
Submit(p, k) ==
    /\ Running
    /\ ppc[p] = "idle"
    /\ nsub < MaxSubmits
    /\ k \in Closable => closepc = "idle"
    /\ nsub' = nsub + 1
    /\ pid' = [pid EXCEPT ![p] = nsub + 1]
    /\ pkind' = [pkind EXCEPT ![p] = k]
    /\ subs' = [subs EXCEPT ![k] = @ \cup {nsub + 1}]
    /\ ppc' = [ppc EXCEPT ![p] = "get"]
    /\ UNCHANGED <<dispVars, enq, closepc, mainpc, ext>>

\* GetAuditLogger / GetNotificationService / GetErrorHandler: once.Do builds
\* the instance and starts its consumer goroutine on the first call only.
GetInstance(p) ==
    /\ Running
    /\ ppc[p] = "get"
    /\ IF created[pkind[p]]
       THEN UNCHANGED <<created, cpc>>
       ELSE /\ created' = [created EXCEPT ![pkind[p]] = TRUE]
            /\ cpc' = [cpc EXCEPT ![pkind[p]] = "recv"]
    /\ ppc' = [ppc EXCEPT ![p] = "add"]
    /\ UNCHANGED <<logChan, wg, closed, sink, held, pkind, pid, nsub, subs,
                   enq, closepc, mainpc, ext>>

\* A submit method without its wg.Add(1).
WgAddNone(p) ==
    /\ Running
    /\ ppc[p] = "add"
    /\ ppc' = [ppc EXCEPT ![p] = "select"]
    /\ UNCHANGED <<dispVars, pkind, pid, nsub, subs, enq, closepc, mainpc, ext>>

\* wg.Add(1), the first statement of every submit method.
WgAdd(p) ==
    /\ Running
    /\ ppc[p] = "add"
    /\ wg' = [wg EXCEPT ![pkind[p]] = @ + 1]
    /\ ppc' = [ppc EXCEPT ![p] = "select"]
    /\ UNCHANGED <<created, logChan, closed, sink, cpc, held, pkind, pid,
                   nsub, subs, enq, closepc, mainpc, ext>>

\* select, case chan <- entry: the buffer has room, the entry is queued and
\* the method returns.
SelectSend(p) ==
    /\ Running
    /\ ppc[p] = "select"
    /\ ~closed[pkind[p]]
    /\ ~ChanFull(logChan[pkind[p]])
    /\ logChan' = [logChan EXCEPT ![pkind[p]] = ChanSend(@, pid[p])]
    /\ enq' = [enq EXCEPT ![pkind[p]] = Append(@, pid[p])]
    /\ ppc' = [ppc EXCEPT ![p] = "idle"]
    /\ pid' = [pid EXCEPT ![p] = 0]
    /\ pkind' = [pkind EXCEPT ![p] = "audit"]
    /\ UNCHANGED <<created, wg, closed, sink, cpc, held, nsub, subs,
                   closepc, mainpc, ext>>

\* A plain send without a default case: nothing to do when the buffer is full.
SelectNoDefault(p) == FALSE

\* select, default: the buffer is full, the overflow path is taken.
SelectDefault(p) ==
    /\ Running
    /\ ppc[p] = "select"
    /\ ~closed[pkind[p]]
    /\ ChanFull(logChan[pkind[p]])
    /\ ppc' = [ppc EXCEPT ![p] = "ovf_done"]
    /\ UNCHANGED <<dispVars, pkind, pid, nsub, subs, enq, closepc, mainpc, ext>>

\* The default branch without its wg.Done().
OverflowNoDone(p) ==
    /\ Running
    /\ ppc[p] = "ovf_done"
    /\ ppc' = [ppc EXCEPT ![p] = "ovf_print"]
    /\ UNCHANGED <<dispVars, pkind, pid, nsub, subs, enq, closepc, mainpc, ext>>

\* default branch, first statement: wg.Done().
OverflowDone(p) ==
    /\ Running
    /\ ppc[p] = "ovf_done"
    /\ wg' = [wg EXCEPT ![pkind[p]] = @ - 1]
    /\ ppc' = [ppc EXCEPT ![p] = "ovf_print"]
    /\ UNCHANGED <<created, logChan, closed, sink, cpc, held, pkind, pid,
                   nsub, subs, enq, closepc, mainpc, ext>>

\* The default branch without its Printf: the payload is dropped silently.
OverflowSilent(p) ==
    /\ Running
    /\ ppc[p] = "ovf_print"
    /\ ppc' = [ppc EXCEPT ![p] = "idle"]
    /\ pid' = [pid EXCEPT ![p] = 0]
    /\ pkind' = [pkind EXCEPT ![p] = "audit"]
    /\ UNCHANGED <<dispVars, nsub, subs, enq, closepc, mainpc, ext>>

\* default branch, second statement: the synchronous Printf with the
\* overflow tag, then the method returns.
OverflowPrintf(p) ==
    /\ Running
    /\ ppc[p] = "ovf_print"
    /\ sink' = [sink EXCEPT ![pkind[p]] =
                    Append(@, [tag |-> "OVERFLOW", id |-> pid[p]])]
    /\ ppc' = [ppc EXCEPT ![p] = "idle"]
    /\ pid' = [pid EXCEPT ![p] = 0]
    /\ pkind' = [pkind EXCEPT ![p] = "audit"]
    /\ UNCHANGED <<created, logChan, wg, closed, cpc, held, nsub, subs,
                   enq, closepc, mainpc, ext>>

\* Every step of a submit call after its invocation.
SubmitStep(p) ==
    \/ GetInstance(p)
    \/ WgAdd(p)
    \/ SelectSend(p)
    \/ SelectDefault(p)
    \/ OverflowDone(p)
    \/ OverflowPrintf(p)

\* ------------------------------------------------------------- consumers
\* for entry := range chan: receive the oldest entry.
ConsumerRecv(k) ==
    /\ Running
    /\ cpc[k] = "recv"
    /\ logChan[k] # <<>>
    /\ held' = [held EXCEPT ![k] = ChanHead(logChan[k])]
    /\ logChan' = [logChan EXCEPT ![k] = ChanRest(@)]
    /\ cpc' = [cpc EXCEPT ![k] = "print"]
    /\ UNCHANGED <<created, wg, closed, sink, prodVars, enq, closepc, mainpc, ext>>

\* Body of the loop, first statement: Printf of the entry to the logger.
ConsumerPrintf(k) ==
    /\ Running
    /\ cpc[k] = "print"
    /\ sink' = [sink EXCEPT ![k] = Append(@, [tag |-> "PRIMARY", id |-> held[k]])]
    /\ cpc' = [cpc EXCEPT ![k] = "done"]
    /\ UNCHANGED <<created, logChan, wg, closed, held, prodVars, enq,
                   closepc, mainpc, ext>>

\* The loop body without its wg.Done().
ConsumerNoDone(k) ==
    /\ Running
    /\ cpc[k] = "done"
    /\ held' = [held EXCEPT ![k] = 0]
    /\ cpc' = [cpc EXCEPT ![k] = "recv"]
    /\ UNCHANGED <<created, logChan, wg, closed, sink, prodVars, enq, closepc,
                   mainpc, ext>>

\* Body of the loop, second statement: wg.Done().
ConsumerDone(k) ==
    /\ Running
    /\ cpc[k] = "done"
    /\ wg' = [wg EXCEPT ![k] = @ - 1]
    /\ held' = [held EXCEPT ![k] = 0]
    /\ cpc' = [cpc EXCEPT ![k] = "recv"]
    /\ UNCHANGED <<created, logChan, closed, sink, prodVars, enq, closepc,
                   mainpc, ext>>

\* for { entry := <-chan ... }: a receive on a closed, empty channel yields
\* the zero value and the loop goes on.
ConsumerSpin(k) ==
    /\ Running
    /\ cpc[k] = "recv"
    /\ logChan[k] = <<>>
    /\ closed[k]
    /\ held' = [held EXCEPT ![k] = 0]
    /\ cpc' = [cpc EXCEPT ![k] = "print"]
    /\ UNCHANGED <<created, logChan, wg, closed, sink, prodVars, enq,
                   closepc, mainpc, ext>>

\* range over a closed and empty channel ends the loop and the goroutine.
ConsumerExit(k) ==
    /\ Running
    /\ cpc[k] = "recv"
    /\ logChan[k] = <<>>
    /\ closed[k]
    /\ cpc' = [cpc EXCEPT ![k] = "exit"]
    /\ UNCHANGED <<created, logChan, wg, closed, sink, held, prodVars, enq,
                   closepc, mainpc, ext>>

\* One iteration of the range loop.
ConsumerLoop(k) ==
    \/ ConsumerRecv(k)
    \/ ConsumerPrintf(k)
    \/ ConsumerDone(k)

Consumer(k) == ConsumerLoop(k) \/ ConsumerExit(k)

\* ----------------------------------------------------- AuditLogger.Close
\* Close without the wait.
WaitNoBlock(k) == TRUE

\* wg.Wait() returns when the counter is zero.
WaitReturns(k) == wg[k] = 0

\* The owner calls Close on the existing instance, once, after every
\* producer of that dispatcher has returned.
CloseCall ==
    /\ Running
    /\ closepc = "idle"
    /\ created["audit"]
    /\ \A p \in Procs : ppc[p] # "idle" => pkind[p] # "audit"
    /\ closepc' = "wait"
    /\ UNCHANGED <<dispVars, prodVars, enq, mainpc, ext>>

\* a.wg.Wait()
CloseWait ==
    /\ Running
    /\ closepc = "wait"
    /\ WaitReturns("audit")
    /\ closepc' = "close"
    /\ UNCHANGED <<dispVars, prodVars, enq, mainpc, ext>>

\* close(a.logChan), then Close returns.
CloseChan ==
    /\ Running
    /\ closepc = "close"
    /\ closed' = [closed EXCEPT !["audit"] = TRUE]
    /\ closepc' = "returned"
    /\ UNCHANGED <<created, logChan, wg, sink, cpc, held, prodVars, enq,
                   mainpc, ext>>

Close == CloseCall \/ CloseWait \/ CloseChan

\* ------------------------------------------------------------------ main
\* <-quit: SIGINT or SIGTERM arrives.
MainSignal ==
    /\ mainpc = "serving"
    /\ mainpc' = "shutdown"
    /\ UNCHANGED <<dispVars, prodVars, enq, closepc, ext>>

\* server.Shutdown(ctx) returns and main returns: the process ends and
\* every goroutine with it.
MainReturn ==
    /\ mainpc = "shutdown"
    /\ mainpc' = "exited"
    /\ UNCHANGED <<dispVars, prodVars, enq, closepc, ext>>

\* -------------------------------------------------------- specifications
Dispatch ==
    \/ \E p \in Procs, k \in Kinds : Submit(p, k)
    \/ \E p \in Procs : SubmitStep(p)
    \/ \E k \in Kinds : Consumer(k)

Next == Dispatch \/ Close

Spec == Init /\ [][Next]_vars

\* Go schedules every runnable goroutine: a producer inside a call, a
\* consumer and the caller of Close all keep running.
Fairness ==
    /\ \A p \in Procs : WF_vars(SubmitStep(p))
    /\ \A k \in Kinds : WF_vars(Consumer(k))

\* The liveness of Close is checked with submissions to the audit logger and
\* to one dispatcher that has no Close; the dispatchers share no state and
\* the third has the code of the second.
FairKinds == {"audit", "notification"}

FairNext ==
    \/ \E p \in Procs, k \in FairKinds : Submit(p, k)
    \/ \E p \in Procs : SubmitStep(p)
    \/ \E k \in Kinds : Consumer(k)
    \/ Close

FairSpec == Init /\ [][FairNext]_vars /\ Fairness /\ WF_vars(Close)

\* main never calls Close, so in the program no channel is ever closed and
\* the range loops never end.
ProgNext ==
    \/ \E p \in Procs, k \in Kinds : Submit(p, k)
    \/ \E p \in Procs : SubmitStep(p)
    \/ \E k \in Kinds : ConsumerLoop(k)
    \/ MainSignal
    \/ MainReturn

FairProg ==
    /\ Init /\ [][ProgNext]_vars
    /\ \A p \in Procs : WF_vars(SubmitStep(p))
    /\ \A k \in Kinds : WF_vars(ConsumerLoop(k))


\* ------------------------------------------------------- shared notions
\* The entry the consumer has received and not yet written, as a sequence.
Unwritten(k) == IF cpc[k] = "print" THEN <<held[k]>> ELSE <<>>

\* 1 while the consumer holds an entry whose wg.Done() is still to come.
HeldCount(k) == IF cpc[k] \in {"print", "done"} THEN 1 ELSE 0

\* Producers of kind k between wg.Add(1) and the outcome of their call.
Undecided(k) == {p \in Procs : pkind[p] = k /\ ppc[p] \in {"select", "ovf_done"}}

\* No producer is inside a call to k, the channel is empty and the consumer
\* is between two entries.
Quiescent(k) ==
    /\ \A p \in Procs : ppc[p] # "idle" => pkind[p] # k
    /\ logChan[k] = <<>>
    /\ cpc[k] \in {"none", "recv", "exit"}

NoDuplicates(s) == \A i, j \in 1..Len(s) : s[i].id = s[j].id => i = j

\* ---------------------------------------------------------------- claims
\* C1: for each dispatcher, the payloads accepted by the channel are written
\* to the primary sink in exactly the order in which they were sent: what is
\* written, then the entry being written, then the channel contents is the
\* send order, in every interleaving of producers and consumer.
C1_FifoOrder ==
    \A k \in Kinds : enq[k] = Primary(k) \o Unwritten(k) \o logChan[k]

\* Two payloads written in send order although the later call sent first.
C1_Witness ==
    \E k \in Kinds :
        /\ Len(Primary(k)) >= 2
        /\ Primary(k)[1] > Primary(k)[2]

\* C2: every submit yields exactly one record in exactly one sink: no
\* payload is recorded twice, and once a dispatcher is quiescent its records
\* are exactly the payloads of the submit calls made to it.
C2_ExactlyOneRecord ==
    \A k \in Kinds :
        /\ NoDuplicates(sink[k])
        /\ Range(Primary(k)) \cap Range(Overflow(k)) = {}
        /\ Quiescent(k) =>
              /\ Len(Primary(k)) + Len(Overflow(k)) = Cardinality(subs[k])
              /\ Range(Primary(k)) \cup Range(Overflow(k)) = subs[k]

\* A quiescent dispatcher with records in both sinks.
C2_Witness ==
    \E k \in Kinds :
        /\ Quiescent(k)
        /\ Len(Primary(k)) >= 1
        /\ Len(Overflow(k)) >= 1

\* C3: a submit whose enqueue attempt finds the channel at capacity leaves
\* the channel unchanged and goes to the overflow path; its payload is
\* written by the caller with the overflow tag and is never sent, held or
\* written by the consumer.
C3_OverflowNotEnqueued ==
    /\ [][\A p \in Procs :
             (/\ ppc[p] = "select"
              /\ Len(logChan[pkind[p]]) >= Cap
              /\ ppc'[p] # "select")
             => (/\ ppc'[p] = "ovf_done"
                 /\ logChan' = logChan
                 /\ enq' = enq)]_vars
    /\ [][\A p \in Procs :
             (ppc[p] = "ovf_print" /\ ppc'[p] # "ovf_print")
             => sink'[pkind[p]] =
                    Append(sink[pkind[p]], [tag |-> "OVERFLOW", id |-> pid[p]])]_vars
    /\ [](\A k \in Kinds :
             /\ Range(Overflow(k)) \cap Range(enq[k]) = {}
             /\ \A p \in Procs :
                   (pkind[p] = k /\ ppc[p] \in {"ovf_done", "ovf_print"})
                   => pid[p] \notin Range(enq[k]))

\* The channel is still full of unconsumed payloads and an overflow record
\* has been written.
C3_Witness ==
    \E k \in Kinds :
        /\ Len(logChan[k]) = Cap
        /\ Primary(k) = <<>>
        /\ Len(Overflow(k)) >= 1

\* C4: when Close has returned, the primary sink of the audit logger holds
\* exactly the payloads that were sent, in send order.
C4_DrainComplete ==
    closepc = "returned" =>
        /\ Primary("audit") = enq["audit"]
        /\ Range(Primary("audit")) \cup Range(Overflow("audit")) = subs["audit"]

\* Scenario A: payloads 1, 2, 3 submitted, Close returned.
C4_Witness ==
    /\ closepc = "returned"
    /\ Primary("audit") = <<1, 2, 3>>

\* C5: every payload accepted by a channel is eventually written to the
\* primary sink, whatever became of the call that submitted it, given that
\* the consumer goroutine keeps being scheduled.
C5_AcceptedEventuallyWritten ==
    \A i \in Ids :
        (\E k \in Kinds : i \in Range(enq[k]))
            ~> (\E k \in Kinds : i \in Range(Primary(k)))

\* C6: when main has returned, every dispatcher that was created has been
\* drained and closed: nothing is queued or held, every accepted payload is
\* in the primary sink and the channel is closed.
C6_ShutdownDrainsAll ==
    mainpc = "exited" =>
        \A k \in Kinds :
            created[k] =>
                /\ closed[k]
                /\ logChan[k] = <<>>
                /\ Primary(k) = enq[k]

\* C7: a submit call never waits: whatever the state of the channel and of
\* the consumer, the next statement of a call in progress can be executed;
\* a call makes one enqueue attempt, which either queues the payload and
\* returns or goes to the overflow path, and the overflow path ends with the
\* single overflow write and returns.
C7_SubmitNeverBlocks ==
    /\ [](\A p \in Procs : ppc[p] # "idle" => ENABLED SubmitStep(p))
    /\ [][\A p \in Procs :
             /\ (ppc[p] = "select" /\ ppc'[p] # "select")
                => \/ ppc'[p] = "idle" /\ ~(Len(logChan[pkind[p]]) >= Cap)
                   \/ ppc'[p] = "ovf_done" /\ Len(logChan[pkind[p]]) >= Cap
             /\ (ppc[p] = "ovf_done" /\ ppc'[p] # "ovf_done")
                => ppc'[p] = "ovf_print" /\ sink' = sink
             /\ (ppc[p] = "ovf_print" /\ ppc'[p] # "ovf_print")
                => /\ ppc'[p] = "idle"
                   /\ Len(sink'[pkind[p]]) = Len(sink[pkind[p]]) + 1]_vars

\* A call at its enqueue attempt with the channel full while the consumer
\* is stalled: it has not consumed anything yet.
C7_Witness ==
    \E p \in Procs :
        /\ ppc[p] = "select"
        /\ Len(logChan[pkind[p]]) = Cap
        /\ cpc[pkind[p]] = "recv"
        /\ sink[pkind[p]] = <<>>

\* C8 as stated: the counter never counts a payload that takes the overflow
\* path: while a call is on the overflow path the counter is at most the
\* queued and held payloads plus the other calls not yet decided.
C8_CounterNeverCountsOverflow ==
    \A p \in Procs :
        ppc[p] = "ovf_done" =>
            wg[pkind[p]] <= Len(logChan[pkind[p]]) + HeldCount(pkind[p])
                              + Cardinality(Undecided(pkind[p]) \ {p})

\* C8 amended: the counter counts the queued payloads, the payload the
\* consumer holds, and every call between its wg.Add(1) and its outcome; a
\* call on the overflow path is counted until its wg.Done() and no longer
\* from then on, so an overflow submit has no net effect on the counter.
C8_CounterAccounting ==
    \A k \in Kinds :
        wg[k] = Len(logChan[k]) + HeldCount(k) + Cardinality(Undecided(k))

\* An overflow call after its wg.Done(): the counter is the channel length.
C8_Witness ==
    \E p \in Procs :
        /\ ppc[p] = "ovf_print"
        /\ wg[pkind[p]] = Cap
        /\ Len(logChan[pkind[p]]) = Cap

\* C9: Close leaves its wait only with the counter at zero and closes the
\* channel only then: a closed channel is empty, nothing is held, every
\* accepted payload is written; after the close no record is written and
\* the consumer loop ends.
C9_CloseAfterDrain ==
    /\ [][(closepc = "wait" /\ closepc' # "wait") => wg["audit"] = 0]_vars
    /\ [](closed["audit"] =>
             /\ logChan["audit"] = <<>>
             /\ cpc["audit"] \in {"recv", "exit"}
             /\ wg["audit"] = 0
             /\ Primary("audit") = enq["audit"])
    /\ [][closed["audit"] => sink'["audit"] = sink["audit"]]_vars
    /\ [](cpc["audit"] = "exit" => closed["audit"])
    /\ (closed["audit"] ~> cpc["audit"] = "exit")

\* The consumer loop has ended after a drain of at least two payloads.
C9_Witness ==
    /\ cpc["audit"] = "exit"
    /\ Len(Primary("audit")) >= 2

\* C10: a call to Close returns, given that the consumer keeps being
\* scheduled; and no submit call is ever blocked.
C10_CloseTerminates ==
    /\ (closepc = "wait" ~> closepc = "returned")
    /\ [](\A p \in Procs : ppc[p] # "idle" => ENABLED SubmitStep(p))
    /\ [](closepc = "close" => ENABLED CloseChan)

\* Close is blocked: it waits while payloads are still queued.
C10_Witness ==
    /\ closepc = "wait"
    /\ ~ENABLED Close
    /\ Len(logChan["audit"]) = Cap

\* ===================================================== capture timestamps
\* LogEntry and ErrorEntry have a Timestamp field, Notification has none.
HasTimestamp(k) == k \in {"audit", "error"}

\* entry.Timestamp.Format(time.RFC3339): the time to the second.
FormatRFC3339(t) == t \div TicksPerSecond

\* The prefix log.LstdFlags puts on a line: date and time of the write, to
\* the second.
LstdPrefix(t) == t \div TicksPerSecond

\* The arguments of the i-th submit call, by the name of the field they fill:
\* LogUserAction(action, userID, details), SendNotification(userID,
\* notifType, message), HandleError(operation, err, context).
Arguments(k, i) ==
    CASE k = "audit" -> [Action |-> "CREATE", UserID |-> i, Details |-> "details"]
      [] k = "notification" -> [Type |-> "WELCOME", UserID |-> i, Message |-> "message"]
      [] k = "error" -> [Operation |-> "CreateUser", Error |-> i, Context |-> "context"]

\* The arguments named in a set, as the Printf of a line prints them.
Printed(f, names) == [n \in names |-> f[n]]

\* What the overflow Printf of each kind prints of the arguments f.
OverflowShown(k, f) ==
    CASE k = "audit" -> Printed(f, {"Action", "UserID", "Details"})
      [] k = "notification" -> Printed(f, {"Type", "UserID"})
      [] k = "error" -> Printed(f, {"Operation", "Error"})

\* The entry a submit builds at tick t: LogEntry{..., Timestamp: time.Now()},
\* ErrorEntry{..., Timestamp: time.Now()}, Notification{UserID, Type, Message}.
MakeEntry(k, i, t) ==
    IF HasTimestamp(k) THEN [id |-> i, Timestamp |-> <<t>>, fields |-> Arguments(k, i)]
    ELSE [id |-> i, Timestamp |-> <<>>, fields |-> Arguments(k, i)]

\* The line the consumer writes for entry e at tick t: the logger's prefix,
\* and "Time: ..." for the kinds that print entry.Timestamp.
ConsumerLine(k, e, t) ==
    [tag |-> "PRIMARY", id |-> e.id, prefix |-> LstdPrefix(t),
     time |-> IF HasTimestamp(k) THEN <<FormatRFC3339(e.Timestamp[1])>> ELSE <<>>,
     shown |-> e.fields]

\* The overflow line: prefix only, none of the three prints a Time field.
OverflowLine(k, i, t) ==
    [tag |-> "OVERFLOW", id |-> i, prefix |-> LstdPrefix(t), time |-> <<>>,
     shown |-> OverflowShown(k, Arguments(k, i))]

\* The dispatcher core at rest: its variables keep their initial values.
CoreIdle ==
    UNCHANGED <<created, logChan, wg, closed, sink, cpc, held, ppc, pkind,
                pid, nsub, subs, enq, closepc, mainpc, lost>>

\* The singletons are not touched.
OnceIdle == UNCHANGED onceVars

\* No RateLimiter is touched.
BurstIdle == UNCHANGED burstVars

\* No request passes the gate.
GateIdle == UNCHANGED gateVars

\* No request passes the application.
AppIdle == UNCHANGED appVars

\* The wall clock advances.
Tick ==
    /\ now < MaxTime
    /\ now' = now + 1
    /\ UNCHANGED <<tsChan, tsLines, tsSubAt, tsN>>
    /\ CoreIdle
    /\ OnceIdle
    /\ BurstIdle
    /\ GateIdle
    /\ AppIdle

\* LogUserAction / SendNotification / HandleError at the current tick: the
\* entry is built and queued, or the overflow line is written.
TsSubmit(k) ==
    /\ tsN < MaxSubmits
    /\ tsN' = tsN + 1
    /\ tsSubAt' = [tsSubAt EXCEPT ![tsN + 1] = now]
    /\ IF ChanFull(tsChan[k])
       THEN /\ tsLines' = [tsLines EXCEPT ![k] = Append(@, OverflowLine(k, tsN + 1, now))]
            /\ UNCHANGED tsChan
       ELSE /\ tsChan' = [tsChan EXCEPT ![k] = ChanSend(@, MakeEntry(k, tsN + 1, now))]
            /\ UNCHANGED tsLines
    /\ UNCHANGED now
    /\ CoreIdle
    /\ OnceIdle
    /\ BurstIdle
    /\ GateIdle
    /\ AppIdle

\* One iteration of the consumer loop at the current tick.
TsConsume(k) ==
    /\ tsChan[k] # <<>>
    /\ tsLines' = [tsLines EXCEPT ![k] =
                      Append(@, ConsumerLine(k, ChanHead(tsChan[k]), now))]
    /\ tsChan' = [tsChan EXCEPT ![k] = ChanRest(@)]
    /\ UNCHANGED <<now, tsSubAt, tsN>>
    /\ CoreIdle
    /\ OnceIdle
    /\ BurstIdle
    /\ GateIdle
    /\ AppIdle

TsNext ==
    \/ Tick
    \/ \E k \in Kinds : TsSubmit(k)
    \/ \E k \in Kinds : TsConsume(k)

TsSpec == Init /\ [][TsNext]_vars

\* The time a written line shows for its payload: the Time field when the
\* line has one, else the only time on the line, the logger's prefix.
ShownTime(l) == IF l.time # <<>> THEN l.time[1] ELSE l.prefix

\* C11: every line the consumer writes to the primary sink, for each of the
\* three kinds, shows the time at which its payload was submitted (to the
\* second), not the time at which it was consumed.
C11_SubmissionTimeShown ==
    \A k \in Kinds :
        \A n \in 1..Len(tsLines[k]) :
            tsLines[k][n].tag = "PRIMARY" =>
                ShownTime(tsLines[k][n]) = FormatRFC3339(tsSubAt[tsLines[k][n].id])

\* ==================================================== failing sink writes
\* Body of the loop, first statement, when the write to the sink fails:
\* Printf discards the error of the underlying Write, no line appears and
\* the loop goes on to wg.Done().
ConsumerPrintfFails(k) ==
    /\ Running
    /\ cpc[k] = "print"
    /\ lost' = [lost EXCEPT ![k] = @ \cup {held[k]}]
    /\ cpc' = [cpc EXCEPT ![k] = "done"]
    /\ UNCHANGED <<created, logChan, wg, closed, sink, held, prodVars, enq,
                   closepc, mainpc, tsVars, onceVars, burstVars, gateVars,
                   appVars>>

FailNext == Next \/ \E k \in Kinds : ConsumerPrintfFails(k)

FailSpec == Init /\ [][FailNext]_vars /\ Fairness /\ WF_vars(Close)

\* A line recording that the write of payload i failed.
FailureRecorded(k, i) ==
    \E n \in 1..Len(sink[k]) : sink[k][n].tag = "WRITE_ERROR" /\ sink[k][n].id = i

\* C12: a failed write of a payload to the primary sink is itself recorded,
\* the consumer goes on to every later payload (each accepted payload is
\* eventually written or has failed), and a call to Close still returns.
C12_WriteFailureTolerated ==
    /\ [](\A k \in Kinds : \A i \in lost[k] : FailureRecorded(k, i))
    /\ \A i \in Ids :
          (\E k \in Kinds : i \in Range(enq[k]))
              ~> (\E k \in Kinds : i \in Range(Primary(k)) \cup lost[k])
    /\ (closepc = "wait" ~> closepc = "returned")

\* ============================================ lazy singleton construction
\* GetAuditLogger / GetNotificationService / GetErrorHandler as executed by
\* concurrent callers: once.Do(func() { x = &T{...}; x.start() }); return x.
\* sync.Once: a done flag read without the lock, then a mutex under which
\* the flag is read again, the function run and the flag set.

\* A goroutine calls the getter of kind k.
OnceCall(c, k) ==
    /\ opc[c] = "idle"
    /\ okind' = [okind EXCEPT ![c] = k]
    /\ opc' = [opc EXCEPT ![c] = "check"]
    /\ UNCHANGED <<onceDone, onceMu, inst, ninst, ncons, oslow, got>>
    /\ CoreIdle /\ UNCHANGED <<tsVars, burstVars, gateVars, appVars>>

\* A getter that tests the package variable itself instead of using
\* once.Do: if x == nil { x = &T{...}; x.start() }.
OnceCheckNoLock(c) ==
    /\ opc[c] = "check"
    /\ IF inst[okind[c]] # 0
       THEN opc' = [opc EXCEPT ![c] = "ret"] /\ UNCHANGED oslow
       ELSE opc' = [opc EXCEPT ![c] = "new"] /\ oslow' = [oslow EXCEPT ![c] = TRUE]
    /\ UNCHANGED <<onceDone, onceMu, inst, ninst, ncons, okind, got>>
    /\ CoreIdle /\ UNCHANGED <<tsVars, burstVars, gateVars, appVars>>

\* once.Do, fast path: the done flag is read; when set, Do returns.
OnceCheck(c) ==
    /\ opc[c] = "check"
    /\ IF onceDone[okind[c]]
       THEN opc' = [opc EXCEPT ![c] = "ret"] /\ UNCHANGED oslow
       ELSE opc' = [opc EXCEPT ![c] = "lock"] /\ oslow' = [oslow EXCEPT ![c] = TRUE]
    /\ UNCHANGED <<onceDone, onceMu, inst, ninst, ncons, okind, got>>
    /\ CoreIdle /\ UNCHANGED <<tsVars, burstVars, gateVars, appVars>>

\* once.Do, slow path: the mutex is taken (the caller waits while it is held).
OnceLock(c) ==
    /\ opc[c] = "lock"
    /\ onceMu[okind[c]] = "none"
    /\ onceMu' = [onceMu EXCEPT ![okind[c]] = c]
    /\ opc' = [opc EXCEPT ![c] = "recheck"]
    /\ UNCHANGED <<onceDone, inst, ninst, ncons, okind, oslow, got>>
    /\ CoreIdle /\ UNCHANGED <<tsVars, burstVars, gateVars, appVars>>

\* once.Do, slow path: the done flag is read again under the mutex.
OnceRecheck(c) ==
    /\ opc[c] = "recheck"
    /\ opc' = [opc EXCEPT ![c] = IF onceDone[okind[c]] THEN "unlock" ELSE "new"]
    /\ UNCHANGED <<onceDone, onceMu, inst, ninst, ncons, okind, oslow, got>>
    /\ CoreIdle /\ UNCHANGED <<tsVars, burstVars, gateVars, appVars>>

\* The function given to once.Do, first statement: auditLogger = &AuditLogger{
\* logChan: make(chan LogEntry, 10000), ...}.
OnceNew(c) ==
    /\ opc[c] = "new"
    /\ ninst' = [ninst EXCEPT ![okind[c]] = @ + 1]
    /\ inst' = [inst EXCEPT ![okind[c]] = ninst[okind[c]] + 1]
    /\ opc' = [opc EXCEPT ![c] = "start"]
    /\ UNCHANGED <<onceDone, onceMu, ncons, okind, oslow, got>>
    /\ CoreIdle /\ UNCHANGED <<tsVars, burstVars, gateVars, appVars>>

\* The function given to once.Do, second statement: auditLogger.start(),
\* which starts the consumer goroutine.
OnceStart(c) ==
    /\ opc[c] = "start"
    /\ ncons' = [ncons EXCEPT ![okind[c]] = @ + 1]
    /\ opc' = [opc EXCEPT ![c] = "store"]
    /\ UNCHANGED <<onceDone, onceMu, inst, ninst, okind, oslow, got>>
    /\ CoreIdle /\ UNCHANGED <<tsVars, burstVars, gateVars, appVars>>

\* once.Do, slow path: the done flag is set once the function has returned.
OnceStore(c) ==
    /\ opc[c] = "store"
    /\ onceDone' = [onceDone EXCEPT ![okind[c]] = TRUE]
    /\ opc' = [opc EXCEPT ![c] = "unlock"]
    /\ UNCHANGED <<onceMu, inst, ninst, ncons, okind, oslow, got>>
    /\ CoreIdle /\ UNCHANGED <<tsVars, burstVars, gateVars, appVars>>

\* once.Do, slow path: the mutex is released (a holder only; the getter
\* without once.Do holds none).
OnceUnlock(c) ==
    /\ opc[c] = "unlock"
    /\ onceMu' = [onceMu EXCEPT ![okind[c]] = IF @ = c THEN "none" ELSE @]
    /\ opc' = [opc EXCEPT ![c] = "ret"]
    /\ UNCHANGED <<onceDone, inst, ninst, ncons, okind, oslow, got>>
    /\ CoreIdle /\ UNCHANGED <<tsVars, burstVars, gateVars, appVars>>

\* return auditLogger.
OnceReturn(c) ==
    /\ opc[c] = "ret"
    /\ got' = [got EXCEPT ![c] = inst[okind[c]]]
    /\ opc' = [opc EXCEPT ![c] = "returned"]
    /\ UNCHANGED <<onceDone, onceMu, inst, ninst, ncons, okind, oslow>>
    /\ CoreIdle /\ UNCHANGED <<tsVars, burstVars, gateVars, appVars>>

OnceNext ==
    \/ \E c \in Callers, k \in Kinds : OnceCall(c, k)
    \/ \E c \in Callers :
          \/ OnceCheck(c)
          \/ OnceLock(c)
          \/ OnceRecheck(c)
          \/ OnceNew(c)
          \/ OnceStart(c)
          \/ OnceStore(c)
          \/ OnceUnlock(c)
          \/ OnceReturn(c)

OnceSpec == Init /\ [][OnceNext]_vars

\* C13: for each kind, whatever the number of concurrent first uses, at most
\* one instance is built and at most one consumer started; every caller that
\* has returned holds that one instance, with its consumer running.
C13_SingleInstance ==
    \A k \in Kinds :
        /\ ninst[k] <= 1
        /\ ncons[k] <= 1
        /\ \A c \in Callers :
              (opc[c] = "returned" /\ okind[c] = k)
              => (got[c] = 1 /\ inst[k] = 1 /\ ninst[k] = 1 /\ ncons[k] = 1)

\* Two callers that both found the singleton not yet built have returned.
C13_Witness ==
    \E c, d \in Callers :
        /\ c # d
        /\ okind[c] = okind[d]
        /\ oslow[c] /\ oslow[d]
        /\ opc[c] = "returned" /\ opc[d] = "returned"

\* ============================================================ token bucket
\* rate.Limiter of golang.org/x/time/rate, as used by rate_limiter.go.  The
\* token count is kept in units of 1/TicksPerSecond token, so that the
\* refill over one clock tick at rate r tokens per second is r units.
Units(n) == n * TicksPerSecond

Min(a, b) == IF a < b THEN a ELSE b

\* rate.NewLimiter(r, b): a full bucket.
NewLimiter(r, b) ==
    [limit |-> r, burst |-> b, tokens |-> Units(b), last |-> 0]

\* Limit.tokensFromDuration: tokens (in units) that accumulate over d ticks.
TokensFromDuration(r, d) == d * r

\* Limiter.advance: the token count at tick t, refilled lazily from the
\* count stored at the last successful call and capped at the burst.
Advance(l, t) ==
    LET last == IF t < l.last THEN t ELSE l.last
    IN  Min(Units(l.burst), l.tokens + TokensFromDuration(l.limit, t - last))

\* Limiter.reserveN(t, 1, 0).ok: one token is available at tick t.
ReserveOk(l, t) == 1 <= l.burst /\ Advance(l, t) - Units(1) >= 0

\* The limiter after Allow at tick t: a successful call stores the new
\* count and time, a failed one stores nothing.
AfterAllow(l, t) ==
    IF ReserveOk(l, t)
    THEN [l EXCEPT !.tokens = Advance(l, t) - Units(1), !.last = t]
    ELSE l

\* A test of the token count in place of Allow: nothing is consumed.
AllowPeek(l, t) == [ok |-> ReserveOk(l, t), after |-> l]

\* Allow: the answer of the limiter at tick t and the limiter afterwards.
Allow(l, t) == [ok |-> ReserveOk(l, t), after |-> AfterAllow(l, t)]

\* NewRateLimiter with its arguments passed in the wrong order.
NewRateLimiterSwapped(rps, burst) == [limiter |-> NewLimiter(burst, rps)]

\* NewRateLimiter(rps, burst): &RateLimiter{limiter: rate.NewLimiter(rps, burst)}.
NewRateLimiter(rps, burst) == [limiter |-> NewLimiter(rps, burst)]

\* Configurations of the burst scenarios: rate 2/s with burst 2, and the
\* configuration of the global limiter.
BurstConfigs == {<<2, 2>>, <<GlobalRate, GlobalBurst>>}

\* Time passes before the limiter is built.
BurstTick ==
    /\ rl = <<>>
    /\ now < MaxTime
    /\ now' = now + 1
    /\ UNCHANGED <<tsChan, tsLines, tsSubAt, tsN, burstVars, onceVars, gateVars,
                 appVars>>
    /\ CoreIdle

\* A test builds a RateLimiter.
BurstNew(rps, burst) ==
    /\ rl = <<>>
    /\ rl' = <<[cfg |-> <<rps, burst>>, obj |-> NewRateLimiter(rps, burst)]>>
    /\ UNCHANGED <<bCalls, bOk, bLast, tsVars, onceVars, gateVars, appVars>>
    /\ CoreIdle

\* RateLimiter.Allow: return rl.limiter.Allow(), all calls at the same tick.
BurstAllow ==
    /\ rl # <<>>
    /\ bCalls < rl[1].cfg[2] + MaxExtra
    /\ bCalls' = bCalls + 1
    /\ bLast' = <<Allow(rl[1].obj.limiter, now).ok>>
    /\ bOk' = IF Allow(rl[1].obj.limiter, now).ok THEN bOk + 1 ELSE bOk
    /\ rl' = <<[rl[1] EXCEPT !.obj.limiter = Allow(@, now).after]>>
    /\ UNCHANGED <<tsVars, onceVars, gateVars, appVars>>
    /\ CoreIdle

BurstNext ==
    \/ BurstTick
    \/ \E c \in BurstConfigs : BurstNew(c[1], c[2])
    \/ BurstAllow

BurstSpec == Init /\ [][BurstNext]_vars

\* C14: of the calls of Allow made at one instant on a freshly built limiter
\* of burst B, the first B return true and every later one false.
C14_BurstAdmitsExactlyB ==
    rl # <<>> =>
        /\ bOk = Min(bCalls, rl[1].cfg[2])
        /\ bCalls >= 1 => bLast = <<bCalls <= rl[1].cfg[2]>>

\* The global configuration: 5000 calls succeeded and the 5001st failed.
C14_Witness ==
    /\ rl # <<>>
    /\ rl[1].cfg = <<GlobalRate, GlobalBurst>>
    /\ bCalls = GlobalBurst + 1
    /\ bOk = GlobalBurst
    /\ bLast = <<FALSE>>

\* ============================================================ admission gate
\* http.StatusTooManyRequests
StatusTooManyRequests == 429

\* The dispatcher, the timestamps, the singletons and the burst test are idle.
GateOnly == CoreIdle /\ UNCHANGED <<tsVars, onceVars, burstVars, appVars>>

\* SetGlobalLimiter with its arguments passed in the wrong order.
SetGlobalLimiterSwapped(rps, burst) ==
    /\ <<rps, burst>> \in cfgLeft
    /\ cfgLeft' = {}
    /\ lims' = Append(lims, NewLimiter(burst, rps))
    /\ mu' = Append(mu, "free")
    /\ gh' = Append(gh, NewHistory(<<rps, burst>>, now))
    /\ glob' = Len(lims) + 1
    /\ UNCHANGED <<gpc, glim, gstart, gt, gloc, gres, gstatus, gnext, gspawn, nreq,
                   nrej, pendErr, errSubs, hits>>
    /\ GateOnly

\* SetGlobalLimiter(rps, burst): globalLimiter = rate.NewLimiter(rps, burst).
SetGlobalLimiter(rps, burst) ==
    /\ <<rps, burst>> \in cfgLeft
    /\ cfgLeft' = {}
    /\ lims' = Append(lims, NewLimiter(rps, burst))
    /\ mu' = Append(mu, "free")
    /\ gh' = Append(gh, NewHistory(<<rps, burst>>, now))
    /\ glob' = Len(lims) + 1
    /\ UNCHANGED <<gpc, glim, gstart, gt, gloc, gres, gstatus, gnext, gspawn, nreq,
                   nrej, pendErr, errSubs, hits>>
    /\ GateOnly

\* A request enters RateLimitMiddleware.
GateArrive(r) ==
    /\ gpc[r] = "idle"
    /\ nreq < MaxReqs
    /\ nreq' = nreq + 1
    /\ gstart' = [gstart EXCEPT ![r] = glob]
    /\ gpc' = [gpc EXCEPT ![r] = "load"]
    /\ UNCHANGED <<lims, mu, gh, glob, cfgLeft, glim, gt, gloc, gres, gstatus,
                   gnext, gspawn, nrej, pendErr, errSubs, hits>>
    /\ GateOnly

\* The values written to the variable globalLimiter so far.
GlobValues == 1..glob

\* The request reads the variable globalLimiter.  SetGlobalLimiter writes it
\* without synchronisation, so the read may return any value written so far.
GateLoad(r) ==
    /\ gpc[r] = "load"
    /\ \E j \in GlobValues : glim' = [glim EXCEPT ![r] = j]
    /\ gpc' = [gpc EXCEPT ![r] = "lock"]
    /\ UNCHANGED <<lims, mu, gh, glob, cfgLeft, gstart, gt, gloc, gres, gstatus,
                   gnext, gspawn, nreq, nrej, pendErr, errSubs, hits>>
    /\ GateOnly

\* Allow takes the limiter's mutex and computes the answer at the current time.
AllowLock(r) ==
    /\ gpc[r] = "lock"
    /\ mu[glim[r]] = "free"
    /\ mu' = [mu EXCEPT ![glim[r]] = r]
    /\ gt' = [gt EXCEPT ![r] = now]
    /\ gloc' = [gloc EXCEPT ![r] = <<Allow(lims[glim[r]], now)>>]
    /\ gpc' = [gpc EXCEPT ![r] = "write"]
    /\ UNCHANGED <<lims, gh, glob, cfgLeft, glim, gstart, gres, gstatus, gnext, gspawn,
                   nreq, nrej, pendErr, errSubs, hits>>
    /\ GateOnly

\* if !globalLimiter.Allow() with the test the wrong way round.
RejectedInverted(ok) == ok

\* if !globalLimiter.Allow(): the request is rejected when Allow answers false.
Rejected(ok) == ~ok

\* The history of limiter h after a call decided at tick t on limiter l
\* answered ok: the calls of one instant are counted together.
Decided(h, l, t, ok) ==
    LET first == h.iCalls = 0 \/ h.iAt # t
        h1 == IF first
              THEN [h EXCEPT !.iAt = t, !.iTok = Advance(l, t),
                             !.iCalls = 1, !.iOk = IF ok THEN 1 ELSE 0]
              ELSE [h EXCEPT !.iCalls = @ + 1,
                             !.iOk = IF ok THEN @ + 1 ELSE @]
    IN  h1

\* Allow stores the new state, releases the mutex and returns; the
\* middleware branches on the answer.
AllowWrite(r) ==
    /\ gpc[r] = "write"
    /\ lims' = [lims EXCEPT ![glim[r]] = gloc[r][1].after]
    /\ mu' = [mu EXCEPT ![glim[r]] = "free"]
    /\ gres' = [gres EXCEPT ![r] = <<gloc[r][1].ok>>]
    /\ gh' = [gh EXCEPT ![glim[r]] =
                 LET h == Decided(@, lims[glim[r]], gt[r], gloc[r][1].ok)
                 IN  IF gloc[r][1].ok
                     THEN [h EXCEPT !.at = gt[r],
                                    !.tok = gloc[r][1].after.tokens]
                     ELSE h]
    /\ nrej' = IF gloc[r][1].ok THEN nrej ELSE nrej + 1
    /\ gpc' = [gpc EXCEPT ![r] = IF Rejected(gloc[r][1].ok) THEN "error" ELSE "next"]
    /\ UNCHANGED <<glob, cfgLeft, glim, gstart, gt, gloc, gstatus, gnext, gspawn, nreq,
                   pendErr, errSubs, hits>>
    /\ GateOnly

\* http.Error(w, "Too Many Requests", http.StatusTooManyRequests)
GateError(r) ==
    /\ gpc[r] = "error"
    /\ gstatus' = [gstatus EXCEPT ![r] = StatusTooManyRequests]
    /\ gpc' = [gpc EXCEPT ![r] = "spawn"]
    /\ UNCHANGED <<lims, mu, gh, glob, cfgLeft, glim, gstart, gt, gloc, gres, gnext,
                   gspawn, nreq, nrej, pendErr, errSubs, hits>>
    /\ GateOnly

\* The rejecting branch without its return statement.
GateSpawnNoReturn(r) ==
    /\ gpc[r] = "spawn"
    /\ gspawn' = [gspawn EXCEPT ![r] = @ + 1]
    /\ pendErr' = pendErr + 1
    /\ gpc' = [gpc EXCEPT ![r] = "next"]
    /\ UNCHANGED <<lims, mu, gh, glob, cfgLeft, glim, gstart, gt, gloc, gres, gstatus,
                   gnext, nreq, nrej, errSubs, hits>>
    /\ GateOnly

\* The rejecting branch without the go statement.
GateSpawnNone(r) ==
    /\ gpc[r] = "spawn"
    /\ gpc' = [gpc EXCEPT ![r] = "ret"]
    /\ UNCHANGED <<lims, mu, gh, glob, cfgLeft, glim, gstart, gt, gloc, gres, gstatus,
                   gnext, gspawn, nreq, nrej, pendErr, errSubs, hits>>
    /\ GateOnly

\* go LogError("rate_limit", nil, ...); return
GateSpawn(r) ==
    /\ gpc[r] = "spawn"
    /\ gspawn' = [gspawn EXCEPT ![r] = @ + 1]
    /\ pendErr' = pendErr + 1
    /\ gpc' = [gpc EXCEPT ![r] = "ret"]
    /\ UNCHANGED <<lims, mu, gh, glob, cfgLeft, glim, gstart, gt, gloc, gres, gstatus,
                   gnext, nreq, nrej, errSubs, hits>>
    /\ GateOnly

\* next.ServeHTTP(w, r): the request is admitted; the admission is recorded
\* at the tick of the limiter's decision.
GateNext(r) ==
    /\ gpc[r] = "next"
    /\ gnext' = [gnext EXCEPT ![r] = @ + 1]
    /\ gh' = [gh EXCEPT ![glim[r]].adm[gt[r]] = @ + 1]
    /\ gpc' = [gpc EXCEPT ![r] = "ret"]
    /\ UNCHANGED <<lims, mu, glob, cfgLeft, glim, gstart, gt, gloc, gres, gstatus,
                   gspawn, nreq, nrej, pendErr, errSubs, hits>>
    /\ GateOnly

\* The middleware returns: the request has ended.
GateReturn(r) ==
    /\ gpc[r] = "ret"
    /\ gpc' = [gpc EXCEPT ![r] = "idle"]
    /\ glim' = [glim EXCEPT ![r] = 0]
    /\ gstart' = [gstart EXCEPT ![r] = 0]
    /\ gt' = [gt EXCEPT ![r] = 0]
    /\ gloc' = [gloc EXCEPT ![r] = <<>>]
    /\ gres' = [gres EXCEPT ![r] = <<>>]
    /\ gstatus' = [gstatus EXCEPT ![r] = 0]
    /\ gnext' = [gnext EXCEPT ![r] = 0]
    /\ gspawn' = [gspawn EXCEPT ![r] = 0]
    /\ UNCHANGED <<lims, mu, gh, glob, cfgLeft, nreq, nrej, pendErr, errSubs,
                   hits>>
    /\ GateOnly

\* A started goroutine runs LogError, which submits one error record.
ErrSubmit ==
    /\ pendErr > 0
    /\ pendErr' = pendErr - 1
    /\ errSubs' = errSubs + 1
    /\ UNCHANGED <<lims, mu, gh, glob, cfgLeft, gpc, glim, gstart, gt, gloc, gres,
                   gstatus, gnext, gspawn, nreq, nrej, hits>>
    /\ GateOnly

\* IncrementRateLimitHits: RateLimitHits.Inc().  No code calls it.
IncrementRateLimitHits ==
    /\ hits' = hits + 1
    /\ UNCHANGED <<lims, mu, gh, glob, cfgLeft, gpc, glim, gstart, gt, gloc, gres,
                   gstatus, gnext, gspawn, nreq, nrej, pendErr, errSubs>>
    /\ GateOnly

\* The gate with its error goroutines, at one instant.
GateStep ==
    \/ \E c \in SmallConfigs : SetGlobalLimiter(c[1], c[2])
    \/ \E r \in Reqs : GateArrive(r)
    \/ \E r \in Reqs : GateLoad(r)
    \/ \E r \in Reqs : AllowLock(r)
    \/ \E r \in Reqs : AllowWrite(r)
    \/ \E r \in Reqs : GateError(r)
    \/ \E r \in Reqs : GateSpawn(r)
    \/ \E r \in Reqs : GateNext(r)
    \/ \E r \in Reqs : GateReturn(r)
    \/ ErrSubmit

\* Requests served one after another.
SeqReqs == {"r1"}

\* The gate over time, for requests served one after another; the error
\* goroutines it starts are left aside.
RateStep ==
    \/ Tick
    \/ \E c \in SmallConfigs : SetGlobalLimiter(c[1], c[2])
    \/ \E r \in SeqReqs : GateArrive(r)
    \/ \E r \in SeqReqs : GateLoad(r)
    \/ \E r \in SeqReqs : AllowLock(r)
    \/ \E r \in SeqReqs : AllowWrite(r)
    \/ \E r \in SeqReqs : GateError(r)
    \/ \E r \in SeqReqs : GateSpawn(r)
    \/ \E r \in SeqReqs : GateNext(r)
    \/ \E r \in SeqReqs : GateReturn(r)

RateSpec == Init /\ [][RateStep]_vars

GateSpec == Init /\ [][GateStep]_vars

\* The limiters and their histories, side by side.
LimIds == 1..Len(lims)

\* The configured rate and burst of limiter j.
CfgRate(j) == gh[j].cfg[1]
CfgBurst(j) == gh[j].cfg[2]

\* C15: the stored token count and the count at the current time are between
\* 0 and the configured burst B, and after any time without consumption the
\* bucket holds min(B, count after the last consumption + R * elapsed time).
C15_LazyCappedRefill ==
    \A j \in LimIds :
        /\ 0 <= lims[j].tokens /\ lims[j].tokens <= Units(CfgBurst(j))
        /\ 0 <= Advance(lims[j], now)
        /\ Advance(lims[j], now) <= Units(CfgBurst(j))
        /\ now >= gh[j].at =>
              Advance(lims[j], now) =
                 Min(Units(CfgBurst(j)), gh[j].tok + CfgRate(j) * (now - gh[j].at))

\* A drained bucket of an installed configuration has been idle for longer
\* than it takes to fill up, and holds exactly its burst.
C15_Witness ==
    \E j \in LimIds :
        /\ j > 1
        /\ gh[j].tok = 0
        /\ now > gh[j].at
        /\ gh[j].tok + CfgRate(j) * (now - gh[j].at) > Units(CfgBurst(j))
        /\ Advance(lims[j], now) = Units(CfgBurst(j))

\* C16: of the n calls of Allow decided on one limiter at one instant at which
\* k whole tokens were available, min(n, k) answered true, and the bucket is
\* left with k - min(n, k) of them: none spent twice, none lost.
C16_AllowAtomic ==
    \A j \in LimIds :
        gh[j].iCalls > 0 =>
            /\ gh[j].iOk = Min(gh[j].iCalls, gh[j].iTok \div TicksPerSecond)
            /\ mu[j] = "free" =>
                  Advance(lims[j], gh[j].iAt) = gh[j].iTok - Units(gh[j].iOk)

\* Two concurrent calls at one instant found one token: one of them got it,
\* and while the first held the mutex the second was waiting for it.
C16_Witness ==
    \E j \in LimIds :
        /\ gh[j].iCalls = 2
        /\ gh[j].iTok \div TicksPerSecond = 1
        /\ gh[j].iOk = 1
        /\ Advance(lims[j], gh[j].iAt) < Units(1)
        /\ \A r \in Reqs : gres[r] # <<>> /\ glim[r] = j /\ gt[r] = gh[j].iAt

RECURSIVE SumAdm(_, _, _)
\* The admissions recorded in f over the ticks a..b.
SumAdm(f, a, b) == IF a > b THEN 0 ELSE f[a] + SumAdm(f, a + 1, b)

\* C17: the requests a limiter of rate R and burst B admitted within any
\* interval of ticks a..b are at most B + R * (duration of a..b in seconds).
C17_RateBound ==
    \A j \in LimIds :
        \A a \in 0..MaxTime : \A b \in a..MaxTime :
            Units(SumAdm(gh[j].adm, a, b)) <= Units(CfgBurst(j)) + CfgRate(j) * (b - a)

\* An installed limiter admitted as many requests as the bound allows over an
\* interval of more than one tick.
C17_Witness ==
    \E j \in LimIds :
        /\ j > 1
        /\ \E a \in 0..MaxTime : \E b \in (a + 1)..MaxTime :
              /\ gh[j].adm[a] > 0 /\ gh[j].adm[b] > 0
              /\ Units(SumAdm(gh[j].adm, a, b)) =
                    Units(CfgBurst(j)) + CfgRate(j) * (b - a)

\* C18: a request whose Allow answered false is never passed to the next
\* handler and ends with the status 429 written; a request whose Allow
\* answered true ends passed to the next handler once with no status written
\* by the middleware.
C18_RejectOrPass ==
    \A r \in Reqs :
        /\ gres[r] = <<FALSE>> => gnext[r] = 0
        /\ gres[r] = <<TRUE>> => gstatus[r] = 0 /\ gnext[r] <= 1
        /\ gpc[r] = "ret" =>
              /\ gres[r] = <<FALSE>> => gstatus[r] = StatusTooManyRequests
              /\ gres[r] = <<TRUE>> => gnext[r] = 1

\* One request has ended rejected while another has ended admitted.
C18_Witness ==
    \E r, q \in Reqs :
        /\ gpc[r] = "ret" /\ gres[r] = <<FALSE>>
        /\ gstatus[r] = StatusTooManyRequests /\ gnext[r] = 0
        /\ gpc[q] = "ret" /\ gres[q] = <<TRUE>>
        /\ gstatus[q] = 0 /\ gnext[q] = 1

\* Requests rejected that have not reached the go statement yet.
BeforeSpawn == {r \in Reqs : gpc[r] \in {"error", "spawn"}}

\* C19: every rejected request starts exactly one LogError goroutine, each of
\* which submits one error record, an admitted request starts none, and a
\* rejected request can go on and end whatever the goroutines have done.
C19_OneErrorSubmission ==
    /\ nrej = errSubs + pendErr + Cardinality(BeforeSpawn)
    /\ \A r \in Reqs :
          /\ gpc[r] = "ret" =>
                gspawn[r] = IF gres[r] = <<FALSE>> THEN 1 ELSE 0
          /\ gspawn[r] <= 1
          /\ gpc[r] = "spawn" => ENABLED GateSpawn(r)
          /\ gpc[r] = "ret" => ENABLED GateReturn(r)

\* A rejected request has ended and its goroutine has not run yet.
C19_Witness ==
    /\ nrej = 1
    /\ errSubs = 0
    /\ pendErr = 1
    /\ \A r \in Reqs : gpc[r] = "idle"

\* C20: the counter rate_limit_hits_total equals the number of requests whose
\* Allow answered false.
C20_HitsCountRejections == hits = nrej

\* C23: every decision is made by one limiter that was the shared one, and a
\* request that started after SetGlobalLimiter had returned is decided by
\* the limiter it installed.
C23_AtomicReplacement ==
    \A r \in Reqs :
        glim[r] # 0 => glim[r] \in LimIds /\ glim[r] >= gstart[r]

\* ============================================================ metrics middleware
\* http.StatusOK
StatusOK == 200

\* Methods and URL paths of the requests considered.
Methods == {"GET", "POST"}
RawPaths == {"/api/users/1", "/api/users/2", "/metrics"}
ObsRequests ==
    {[method |-> "GET", path |-> "/api/users/1"],
     [method |-> "GET", path |-> "/api/users/2"],
     [method |-> "POST", path |-> "/api/users/1"],
     [method |-> "GET", path |-> "/metrics"]}

\* Statuses a handler may pass to WriteHeader.
HandlerCodes == {200, 404, 500}

\* The path template of the routes for one user.
UserRoute == "/api/users/{id:[0-9]+}"

\* mux.CurrentRoute(r): the route the router matched (<<>>: nil), for the
\* routes registered by RegisterRoutes and main.
CurrentRoute(rq) ==
    IF rq.path \in {"/api/users/1", "/api/users/2"}
          /\ rq.method \in {"GET", "PUT", "DELETE"}
    THEN <<UserRoute>>
    ELSE IF rq.path = "/metrics" /\ rq.method = "GET"
         THEN <<"/metrics">>
         ELSE <<>>

\* route.GetPathTemplate()
GetPathTemplate(route) == route[1]

RECURSIVE Itoa(_)
\* strconv.Itoa: the decimal digits of n.
Itoa(n) == IF n < 10 THEN <<n>> ELSE Append(Itoa(n \div 10), n % 10)

\* The skip test that never skips.
IsTelemetryNever(rq) == FALSE

\* r.URL.Path == "/metrics"
IsTelemetry(rq) == rq.path = "/metrics"

\* The label taken from the URL path whatever the route.
RouteLabelRaw(rq) == rq.path

\* The path label: the template of the matched route, else the URL path.
RouteLabel(rq) ==
    IF CurrentRoute(rq) # <<>> THEN GetPathTemplate(CurrentRoute(rq)) ELSE rq.path

\* newResponseWriter(w): &responseWriter{w, http.StatusOK}; first is the
\* status of the first WriteHeader call (0: none), which the client receives.
newResponseWriter == [statusCode |-> StatusOK, first |-> 0]

\* responseWriter.WriteHeader(code): rw.statusCode = code.
WriteHeader(rw, code) ==
    [statusCode |-> code, first |-> IF rw.first = 0 THEN code ELSE rw.first]

\* The error type with the boundary of the server class off by one.
ErrorTypeOffByOne(status) ==
    IF status > 500 THEN "server_error" ELSE "client_error"

\* errorType of a status >= 400.
ErrorType(status) ==
    IF status >= 500 THEN "server_error" ELSE "client_error"

\* The dispatchers, the gate and the other scenarios are idle.
ObsOnly == CoreIdle /\ UNCHANGED <<tsVars, onceVars, burstVars, gateVars, usrVars>>

\* A request enters MetricsMiddleware.
ObsArrive(q, rq) ==
    /\ mpc[q] = "idle"
    /\ nobs < MaxObs
    /\ nobs' = nobs + 1
    /\ mreq' = [mreq EXCEPT ![q] = rq]
    /\ mpc' = [mpc EXCEPT ![q] = "enter"]
    /\ UNCHANGED <<wrapped, mlabel, mallow, mnext, mtouch, ndone, TotalRequests,
                   RequestDuration, RequestsInFlight, ErrorsTotal>>
    /\ ObsOnly

\* The /metrics endpoint: next.ServeHTTP(w, r) and nothing else.
ObsSkip(q) ==
    /\ mpc[q] = "enter"
    /\ IsTelemetry(mreq[q])
    /\ mnext' = [mnext EXCEPT ![q] = @ + 1]
    /\ mpc' = [mpc EXCEPT ![q] = "ret"]
    /\ UNCHANGED <<mreq, wrapped, mlabel, mallow, mtouch, nobs, ndone,
                   TotalRequests, RequestDuration, RequestsInFlight, ErrorsTotal>>
    /\ ObsOnly

\* start := time.Now(); RequestsInFlight.Inc(); the response is wrapped, the
\* path label computed and next.ServeHTTP(wrapped, r) called: the next
\* handler is RateLimitMiddleware.
ObsStart(q) ==
    /\ mpc[q] = "enter"
    /\ ~IsTelemetry(mreq[q])
    /\ RequestsInFlight' = RequestsInFlight + 1
    /\ mtouch' = [mtouch EXCEPT ![q] = @ \cup {"in_flight", "timer"}]
    /\ wrapped' = [wrapped EXCEPT ![q] = newResponseWriter]
    /\ mlabel' = [mlabel EXCEPT ![q] = RouteLabel(mreq[q])]
    /\ mnext' = [mnext EXCEPT ![q] = @ + 1]
    /\ mpc' = [mpc EXCEPT ![q] = "gate"]
    /\ UNCHANGED <<mreq, mallow, nobs, ndone, TotalRequests, RequestDuration,
                   ErrorsTotal>>
    /\ ObsOnly

\* RateLimitMiddleware: Allow answers ok; a rejected request gets the status
\* 429 through http.Error, an admitted one goes to its handler.
ObsGate(q, ok) ==
    /\ mpc[q] = "gate"
    /\ mallow' = [mallow EXCEPT ![q] = <<ok>>]
    /\ wrapped' = [wrapped EXCEPT ![q] =
                      IF ok THEN @ ELSE WriteHeader(@, StatusTooManyRequests)]
    /\ mpc' = [mpc EXCEPT ![q] = IF ok THEN "handler" ELSE "back"]
    /\ UNCHANGED <<mreq, mlabel, mnext, mtouch, nobs, ndone, TotalRequests,
                   RequestDuration, RequestsInFlight, ErrorsTotal>>
    /\ ObsOnly

\* The handler calls w.WriteHeader(code) for the first time.
HandlerWriteHeader(q, code) ==
    /\ mpc[q] = "handler"
    /\ wrapped' = [wrapped EXCEPT ![q] = WriteHeader(@, code)]
    /\ mpc' = [mpc EXCEPT ![q] = "wrote"]
    /\ UNCHANGED <<mreq, mlabel, mallow, mnext, mtouch, nobs, ndone,
                   TotalRequests, RequestDuration, RequestsInFlight, ErrorsTotal>>
    /\ ObsOnly

\* The handler calls w.WriteHeader(code) once more.
HandlerWriteAgain(q, code) ==
    /\ mpc[q] = "wrote"
    /\ wrapped' = [wrapped EXCEPT ![q] = WriteHeader(@, code)]
    /\ mpc' = [mpc EXCEPT ![q] = "rewrote"]
    /\ UNCHANGED <<mreq, mlabel, mallow, mnext, mtouch, nobs, ndone,
                   TotalRequests, RequestDuration, RequestsInFlight, ErrorsTotal>>
    /\ ObsOnly

\* The handler returns, with or without a call of WriteHeader.
HandlerReturn(q) ==
    /\ mpc[q] \in {"handler", "wrote", "rewrote"}
    /\ mpc' = [mpc EXCEPT ![q] = "back"]
    /\ UNCHANGED <<mreq, wrapped, mlabel, mallow, mnext, mtouch, nobs, ndone,
                   TotalRequests, RequestDuration, RequestsInFlight, ErrorsTotal>>
    /\ ObsOnly

\* The recording step without the latency observation.
ObsRecordNoLatency(q) ==
    /\ mpc[q] = "back"
    /\ TotalRequests' = TotalRequests (+)
          SetToBag({<<mreq[q].method, mlabel[q], Itoa(wrapped[q].statusCode)>>})
    /\ mtouch' = [mtouch EXCEPT ![q] = @ \cup {"requests"}]
    /\ mpc' = [mpc EXCEPT ![q] = "dec"]
    /\ UNCHANGED <<mreq, wrapped, mlabel, mallow, mnext, nobs, ndone,
                   RequestDuration, RequestsInFlight, ErrorsTotal>>
    /\ ObsOnly

\* TotalRequests.WithLabelValues(method, path, status).Inc();
\* RequestDuration.WithLabelValues(method, path).Observe(duration)
ObsRecord(q) ==
    /\ mpc[q] = "back"
    /\ TotalRequests' = TotalRequests (+)
          SetToBag({<<mreq[q].method, mlabel[q], Itoa(wrapped[q].statusCode)>>})
    /\ RequestDuration' = RequestDuration (+)
          SetToBag({<<mreq[q].method, mlabel[q]>>})
    /\ mtouch' = [mtouch EXCEPT ![q] = @ \cup {"requests", "latency"}]
    /\ mpc' = [mpc EXCEPT ![q] = "dec"]
    /\ UNCHANGED <<mreq, wrapped, mlabel, mallow, mnext, nobs, ndone,
                   RequestsInFlight, ErrorsTotal>>
    /\ ObsOnly

\* The decrement made only for a request without error.
ObsDecOnSuccess(q) ==
    /\ mpc[q] = "dec"
    /\ RequestsInFlight' =
          IF wrapped[q].statusCode >= 400 THEN RequestsInFlight
          ELSE RequestsInFlight - 1
    /\ mpc' = [mpc EXCEPT ![q] = "errs"]
    /\ UNCHANGED <<mreq, wrapped, mlabel, mallow, mnext, mtouch, nobs, ndone,
                   TotalRequests, RequestDuration, ErrorsTotal>>
    /\ ObsOnly

\* RequestsInFlight.Dec()
ObsDec(q) ==
    /\ mpc[q] = "dec"
    /\ RequestsInFlight' = RequestsInFlight - 1
    /\ mpc' = [mpc EXCEPT ![q] = "errs"]
    /\ UNCHANGED <<mreq, wrapped, mlabel, mallow, mnext, mtouch, nobs, ndone,
                   TotalRequests, RequestDuration, ErrorsTotal>>
    /\ ObsOnly

\* if wrapped.statusCode >= 400 { ErrorsTotal.WithLabelValues(...).Inc() }
ObsErrors(q) ==
    /\ mpc[q] = "errs"
    /\ IF wrapped[q].statusCode >= 400
       THEN /\ ErrorsTotal' = ErrorsTotal (+)
                  SetToBag({<<mreq[q].method, mlabel[q],
                              ErrorType(wrapped[q].statusCode)>>})
            /\ mtouch' = [mtouch EXCEPT ![q] = @ \cup {"errors"}]
       ELSE UNCHANGED <<ErrorsTotal, mtouch>>
    /\ mpc' = [mpc EXCEPT ![q] = "ret"]
    /\ UNCHANGED <<mreq, wrapped, mlabel, mallow, mnext, nobs, ndone,
                   TotalRequests, RequestDuration, RequestsInFlight>>
    /\ ObsOnly

\* MetricsMiddleware returns: the request has left it.
ObsReturn(q) ==
    /\ mpc[q] = "ret"
    /\ ndone' = IF IsTelemetry(mreq[q]) THEN ndone ELSE ndone + 1
    /\ mpc' = [mpc EXCEPT ![q] = "idle"]
    /\ mreq' = [mreq EXCEPT ![q] = <<>>]
    /\ wrapped' = [wrapped EXCEPT ![q] = <<>>]
    /\ mlabel' = [mlabel EXCEPT ![q] = ""]
    /\ mallow' = [mallow EXCEPT ![q] = <<>>]
    /\ mnext' = [mnext EXCEPT ![q] = 0]
    /\ mtouch' = [mtouch EXCEPT ![q] = {}]
    /\ UNCHANGED <<nobs, TotalRequests, RequestDuration, RequestsInFlight,
                   ErrorsTotal>>
    /\ ObsOnly

ObsNext ==
    \/ \E q \in Obs : \E rq \in ObsRequests : ObsArrive(q, rq)
    \/ \E q \in Obs : ObsSkip(q)
    \/ \E q \in Obs : ObsStart(q)
    \/ \E q \in Obs : \E ok \in BOOLEAN : ObsGate(q, ok)
    \/ \E q \in Obs : \E code \in HandlerCodes : HandlerWriteHeader(q, code)
    \/ \E q \in Obs : \E code \in HandlerCodes : HandlerWriteAgain(q, code)
    \/ \E q \in Obs : HandlerReturn(q)
    \/ \E q \in Obs : ObsRecord(q)
    \/ \E q \in Obs : ObsDec(q)
    \/ \E q \in Obs : ObsErrors(q)
    \/ \E q \in Obs : ObsReturn(q)

ObsSpec == Init /\ [][ObsNext]_vars

\* C21: a request rejected by the gate has changed none of the metrics of
\* the metrics middleware.
C21_RejectedBypassesMetrics ==
    \A q \in Obs : mallow[q] = <<FALSE>> => mtouch[q] = {}

\* C22: the in-flight gauge is incremented and the latency timer started for
\* a request only after the gate has accepted it.
C22_GateBeforeMetrics ==
    \A q \in Obs :
        mtouch[q] \cap {"in_flight", "timer"} # {} => mallow[q] = <<TRUE>>

\* The requests in MetricsMiddleware other than those to /metrics.
Observed == {q \in Obs : mreq[q] # <<>> /\ mreq[q].path # "/metrics"}

\* Request q takes a step from position p.
Leaves(q, p) == mpc[q] = p /\ mpc'[q] # p

\* The metrics of MetricsMiddleware.
metricVars == <<TotalRequests, RequestDuration, RequestsInFlight, ErrorsTotal>>

\* As many requests are counted, and as many latencies observed, as requests
\* have passed the recording step.
C24_Counted ==
    LET n == ndone + Cardinality({q \in Observed : mpc[q] \in {"dec", "errs", "ret"}})
    IN  /\ BagCardinality(TotalRequests) = n
        /\ BagCardinality(RequestDuration) = n

\* The recording step of a request adds one to the request counter of its
\* (method, path label, status) and one observation to the latency of its
\* (method, path label); nothing else changes these two metrics.
C24_Recorded ==
    /\ \A q \in Obs :
          Leaves(q, "back") =>
             /\ TotalRequests' = TotalRequests (+)
                   SetToBag({<<mreq[q].method, mlabel[q], Itoa(wrapped[q].statusCode)>>})
             /\ RequestDuration' = RequestDuration (+)
                   SetToBag({<<mreq[q].method, mlabel[q]>>})
    /\ (TotalRequests' # TotalRequests \/ RequestDuration' # RequestDuration) =>
          \E q \in Observed : Leaves(q, "back")

\* C24: every request other than /metrics that passes MetricsMiddleware adds
\* exactly one to the request counter of its (method, path label, status held
\* by the middleware when the handler has returned) and exactly one
\* observation to the latency of its (method, path label); no other label
\* combination changes.
C24_CountedOncePerRequest == []C24_Counted /\ [][C24_Recorded]_vars

\* One GET request for a user has ended with status 404 and is counted once.
C24_Witness ==
    /\ ndone = 1
    /\ CopiesIn(<<"GET", UserRoute, Itoa(404)>>, TotalRequests) = 1
    /\ BagCardinality(TotalRequests) = 1
    /\ CopiesIn(<<"GET", UserRoute>>, RequestDuration) = 1

\* The error counter changes only in the error step of a request, by one for
\* a status of 400 or more, with the class of the status, and not at all for
\* a status below 400.
C25_ErrorStep ==
    /\ \A q \in Obs :
          Leaves(q, "errs") =>
             LET st == wrapped[q].statusCode
                 class == IF st <= 499 THEN "client_error" ELSE "server_error"
             IN  IF st >= 400
                 THEN ErrorsTotal' = ErrorsTotal (+)
                         SetToBag({<<mreq[q].method, mlabel[q], class>>})
                 ELSE ErrorsTotal' = ErrorsTotal
    /\ ErrorsTotal' # ErrorsTotal => \E q \in Observed : Leaves(q, "errs")

\* C25: the error counter is incremented by exactly one for a request if and
\* only if its status is 400 or more, with class client for 400-499 and
\* server for 500 and above.
C25_ErrorsCounted == [][C25_ErrorStep]_vars

\* A request that ended with 404 and one that ended with 500 are counted, one
\* in each class.
C25_Witness ==
    /\ ndone = 2
    /\ CopiesIn(<<"GET", UserRoute, Itoa(404)>>, TotalRequests) = 1
    /\ CopiesIn(<<"GET", UserRoute, Itoa(500)>>, TotalRequests) = 1
    /\ CopiesIn(<<"GET", UserRoute, "client_error">>, ErrorsTotal) = 1
    /\ CopiesIn(<<"GET", UserRoute, "server_error">>, ErrorsTotal) = 1

\* C26: the status recorded for a request is the one of the first call of
\* WriteHeader, and 200 when there was none.
C26_FirstStatusRecorded ==
    \A q \in Obs :
        wrapped[q] # <<>> =>
            wrapped[q].statusCode =
                IF wrapped[q].first = 0 THEN StatusOK ELSE wrapped[q].first

\* No step of a request to /metrics changes a metric.
C27_TelemetryStep ==
    \A q \in Obs :
        (mreq[q] # <<>> /\ mreq[q].path = "/metrics" /\ mpc'[q] # mpc[q]) =>
            UNCHANGED metricVars

\* A request to /metrics has had its next handler called at most once, and
\* exactly once when it returns.
C27_NextOnce ==
    \A q \in Obs :
        (mreq[q] # <<>> /\ mreq[q].path = "/metrics") =>
            /\ mnext[q] <= 1
            /\ mpc[q] = "ret" => mnext[q] = 1
            /\ wrapped[q] = <<>>

\* C27: a request to /metrics is passed to the next handler exactly once and
\* changes none of the request counter, the error counter, the latency
\* distribution and the in-flight gauge at any point of its processing.
C27_TelemetrySkipped == []C27_NextOnce /\ [][C27_TelemetryStep]_vars

\* A request to /metrics is about to return while another request is in flight.
C27_Witness ==
    \E q, p \in Obs :
        /\ mreq[q] # <<>> /\ mreq[q].path = "/metrics"
        /\ mpc[q] = "ret" /\ mnext[q] = 1
        /\ mpc[p] = "handler"
        /\ RequestsInFlight = 1

\* The requests between the increment and the decrement of the gauge.
InFlight ==
    {q \in Observed : mpc[q] \in {"gate", "handler", "wrote", "rewrote", "back", "dec"}}

LabelsOf(bag) == {<<k[1], k[2]>> : k \in BagToSet(bag)}

\* C29: the path label of a request is the path template of its matched
\* route when the router matched one and the URL path when it matched none,
\* and every metric recorded carries such a label.
C29_RouteLabel ==
    /\ \A q \in Obs :
          mlabel[q] # "" =>
             /\ CurrentRoute(mreq[q]) # <<>> => mlabel[q] = CurrentRoute(mreq[q])[1]
             /\ CurrentRoute(mreq[q]) = <<>> => mlabel[q] = mreq[q].path
    /\ \A k \in LabelsOf(TotalRequests) \cup LabelsOf(ErrorsTotal)
                  \cup BagToSet(RequestDuration) :
          \E rq \in ObsRequests :
             /\ k[1] = rq.method
             /\ CurrentRoute(rq) # <<>> => k[2] = CurrentRoute(rq)[1]
             /\ CurrentRoute(rq) = <<>> => k[2] = rq.path

\* Requests for two different users have been recorded under one label.
C29_Witness ==
    /\ mpc["q1"] = "dec" /\ mreq["q1"].path = "/api/users/1"
    /\ mpc["q2"] = "dec" /\ mreq["q2"].path = "/api/users/2"
    /\ mreq["q1"].method = "GET" /\ mreq["q2"].method = "GET"
    /\ CopiesIn(<<"GET", UserRoute, Itoa(200)>>, TotalRequests) = 2

\* ============================================================ user service
\* Strings are sequences of one-character strings.
AlphaL == <<"a", "b", "c", "d", "e", "f", "g", "h", "i", "j", "k", "l", "m",
            "n", "o", "p", "q", "r", "s", "t", "u", "v", "w", "x", "y", "z">>
AlphaU == <<"A", "B", "C", "D", "E", "F", "G", "H", "I", "J", "K", "L", "M",
            "N", "O", "P", "Q", "R", "S", "T", "U", "V", "W", "X", "Y", "Z">>
Letters == Range(AlphaL) \cup Range(AlphaU)
Digits == {"0", "1", "2", "3", "4", "5", "6", "7", "8", "9"}
Spaces == {" ", "\t", "\n", "\r"}

\* strings.TrimSpace
RECURSIVE TrimLeft(_)
TrimLeft(str) ==
    IF str # <<>> /\ Head(str) \in Spaces THEN TrimLeft(Tail(str)) ELSE str
RECURSIVE TrimRight(_)
TrimRight(str) ==
    IF str # <<>> /\ str[Len(str)] \in Spaces
    THEN TrimRight(SubSeq(str, 1, Len(str) - 1))
    ELSE str
TrimSpace(str) == TrimRight(TrimLeft(str))

\* strings.ToLower
ToLowerChar(ch) ==
    IF \E i \in DOMAIN AlphaU : AlphaU[i] = ch
    THEN AlphaL[CHOOSE i \in DOMAIN AlphaU : AlphaU[i] = ch]
    ELSE ch
ToLower(str) == [i \in DOMAIN str |-> ToLowerChar(str[i])]

\* emailRegex: ^[a-zA-Z0-9._%+\-]+@[a-zA-Z0-9.\-]+\.[a-zA-Z]{2,}$
LocalChars == Letters \cup Digits \cup {".", "_", "%", "+", "-"}
DomainChars == Letters \cup Digits \cup {".", "-"}
MinTLD == 2
AllIn(str, a, b, chars) == \A i \in a..b : str[i] \in chars
emailRegexMatch(str) ==
    \E at \in 1..Len(str) : \E dot \in (at + 1)..Len(str) :
        /\ str[at] = "@" /\ str[dot] = "."
        /\ at > 1 /\ AllIn(str, 1, at - 1, LocalChars)
        /\ dot > at + 1 /\ AllIn(str, at + 1, dot - 1, DomainChars)
        /\ Len(str) - dot >= MinTLD /\ AllIn(str, dot + 1, Len(str), Letters)

\* User.Validate: the error message, "" for nil.
MinNameLen == 2
MaxNameLen == 100
Validate(u) ==
    IF TrimSpace(u.Name) = <<>> THEN "name is required"
    ELSE IF Len(u.Name) < MinNameLen THEN "name must be at least 2 characters"
    ELSE IF Len(u.Name) > MaxNameLen THEN "name must not exceed 100 characters"
    ELSE IF TrimSpace(u.Email) = <<>> THEN "email is required"
    ELSE IF ~emailRegexMatch(u.Email) THEN "invalid email format"
    ELSE ""

\* User.Sanitize
Sanitize(u) ==
    [u EXCEPT !.Name = TrimSpace(u.Name),
              !.Email = TrimSpace(ToLower(u.Email))]

\* Users in request bodies: two valid ones (the second with an "id" member),
\* a name of one character after trimming, a malformed address.
UserInputs ==
    { [ID |-> 0, Name |-> <<" ", "A", "l">>, Email |-> <<"A", "@", "b", ".", "i", "o">>],
      [ID |-> 9, Name |-> <<"B", "o">>, Email |-> <<"b", "@", "c", ".", "d", "e", " ">>],
      [ID |-> 0, Name |-> <<"C", " ">>, Email |-> <<"c", "@", "c", ".", "d", "e">>],
      [ID |-> 0, Name |-> <<"D", "i">>, Email |-> <<"d", "@", "c">>] }

\* http.StatusCreated, http.StatusBadRequest, http.StatusNotFound
StatusCreated == 201
StatusBadRequest == 400
StatusNotFound == 404

\* The last path segment of a request for one user: a stored or a missing
\* ID, letters, and digits beyond the range of int.
OutOfRange == <<"9", "9", "9", "9", "9", "9", "9", "9", "9", "9",
                "9", "9", "9", "9", "9", "9", "9", "9", "9", "9">>
Segments == {<<"1">>, <<"2">>, <<"a">>, OutOfRange}

\* Requests to the user endpoints: method, last path segment (<<>> for
\* /api/users) and body (<<>>: not decodable as a user, <<u>>: the user u).
ApiRequests ==
    {[method |-> "POST", seg |-> <<>>, body |-> b] :
        b \in {<<>>} \cup {<<u>> : u \in UserInputs}}
    \cup {[method |-> "GET", seg |-> s, body |-> <<>>] : s \in {<<>>} \cup Segments}
    \cup {[method |-> "PUT", seg |-> <<"1">>, body |-> b] :
            b \in {<<>>} \cup {<<u>> : u \in UserInputs}}
    \cup {[method |-> "PUT", seg |-> s, body |-> <<u>>] :
            s \in {<<"2">>, <<"a">>},
            u \in {v \in UserInputs : v.ID = 9}}
    \cup {[method |-> "DELETE", seg |-> s, body |-> <<>>] : s \in Segments}

\* The routes of RegisterRoutes: the handler a request is routed to, "" when
\* no route matches ({id:[0-9]+} matches digits only).
Route(rq) ==
    IF rq.seg = <<>>
    THEN CASE rq.method = "GET" -> "GetAllUsers"
           [] rq.method = "POST" -> "CreateUser"
           [] OTHER -> ""
    ELSE IF AllIn(rq.seg, 1, Len(rq.seg), Digits)
         THEN CASE rq.method = "GET" -> "GetUserByID"
                [] rq.method = "PUT" -> "UpdateUser"
                [] rq.method = "DELETE" -> "DeleteUser"
                [] OTHER -> ""
         ELSE ""

\* strconv.Atoi on 64-bit int: decimal digits, value at most 2^63 - 1.
DigitSeq == <<"0", "1", "2", "3", "4", "5", "6", "7", "8", "9">>
DigitVal(ch) == (CHOOSE i \in DOMAIN DigitSeq : DigitSeq[i] = ch) - 1
MaxIntDigits == <<"9", "2", "2", "3", "3", "7", "2", "0", "3", "6",
                  "8", "5", "4", "7", "7", "5", "8", "0", "7">>
RECURSIVE StripZeros(_)
StripZeros(str) ==
    IF Len(str) > 1 /\ Head(str) = "0" THEN StripZeros(Tail(str)) ELSE str
RECURSIVE LexLeq(_, _)
LexLeq(a, b) ==
    IF a = <<>> THEN TRUE
    ELSE IF DigitVal(Head(a)) # DigitVal(Head(b))
         THEN DigitVal(Head(a)) < DigitVal(Head(b))
         ELSE LexLeq(Tail(a), Tail(b))
NumLeq(a, b) == Len(a) < Len(b) \/ (Len(a) = Len(b) /\ LexLeq(a, b))
AtoiOk(str) ==
    /\ str # <<>>
    /\ AllIn(str, 1, Len(str), Digits)
    /\ NumLeq(StripZeros(str), MaxIntDigits)
RECURSIVE AtoiVal(_)
AtoiVal(str) ==
    IF str = <<>> THEN 0
    ELSE AtoiVal(SubSeq(str, 1, Len(str) - 1)) * 10 + DigitVal(str[Len(str)])

\* Objects: an address not in use, and the objects still referenced by the
\* map or by a caller.
Fresh(h) ==
    CHOOSE a \in 1..(Cardinality(DOMAIN h) + 1) :
        a \notin DOMAIN h /\ \A b \in 1..(a - 1) : b \in DOMAIN h
Collect(h, us, ur) ==
    [a \in DOMAIN h \cap ({us[i] : i \in DOMAIN us} \cup UNION {ur[c] : c \in Creators})
        |-> h[a]]

\* The outcome of a service call or of a handler: the objects afterwards, the
\* pointers returned, the error ("": nil), whether s.mu was taken, the status.
Out(h, refs, err, locked, status) ==
    [heap |-> h, refs |-> refs, err |-> err, locked |-> locked, status |-> status]

\* UserService.GetByID: userCopy := *user; return &userCopy.
GetByID(us, h, id) ==
    IF id \notin DOMAIN us
    THEN Out(h, {}, "user not found", TRUE, 0)
    ELSE Out(h @@ (Fresh(h) :> h[us[id]]), {Fresh(h)}, "", TRUE, 0)

\* UserService.GetAll: a copy of every stored user.
RECURSIVE GetAllFrom(_, _, _, _)
GetAllFrom(ids, us, h, acc) ==
    IF ids = {} THEN Out(h, acc, "", TRUE, 0)
    ELSE LET i == CHOOSE x \in ids : \A y \in ids : x <= y
         IN GetAllFrom(ids \ {i}, us, h @@ (Fresh(h) :> h[us[i]]), acc \cup {Fresh(h)})
GetAll(us, h) == GetAllFrom(DOMAIN us, us, h, {})

\* Update that stores the updated user as it came: *existing = updated.
UpdateReplace(us, h, id, updated) ==
    IF Validate(Sanitize(updated)) # ""
    THEN Out(h, {}, Validate(Sanitize(updated)), FALSE, 0)
    ELSE IF id \notin DOMAIN us
    THEN Out(h, {}, "user not found", TRUE, 0)
    ELSE LET h1 == [h EXCEPT ![us[id]] = Sanitize(updated)]
         IN Out(h1 @@ (Fresh(h1) :> h1[us[id]]), {Fresh(h1)}, "", TRUE, 0)

\* UserService.Update: Sanitize, Validate, then under the lock the name and
\* the email of the stored object are assigned and a copy is returned.
Update(us, h, id, updated) ==
    IF Validate(Sanitize(updated)) # ""
    THEN Out(h, {}, Validate(Sanitize(updated)), FALSE, 0)
    ELSE IF id \notin DOMAIN us
    THEN Out(h, {}, "user not found", TRUE, 0)
    ELSE LET h1 == [h EXCEPT ![us[id]].Name = Sanitize(updated).Name,
                             ![us[id]].Email = Sanitize(updated).Email]
         IN Out(h1 @@ (Fresh(h1) :> h1[us[id]]), {Fresh(h1)}, "", TRUE, 0)

\* Only the user service moves.
UsrOnly == CoreIdle /\ UNCHANGED <<tsVars, onceVars, burstVars, gateVars, obsVars>>

\* No route matches: the router answers 404 and no handler runs.
NotFound(c, rq) ==
    /\ upc[c] = "idle"
    /\ ncalls < MaxCalls
    /\ Route(rq) = ""
    /\ ncalls' = ncalls + 1
    /\ ureq' = [ureq EXCEPT ![c] = rq]
    /\ uerr' = [uerr EXCEPT ![c] = ""]
    /\ ustatus' = [ustatus EXCEPT ![c] = StatusNotFound]
    /\ UNCHANGED <<users, heap, idCounter, usmu, upc, uin, unewID, ucount,
                   uret, clrpc, ActiveUsers, issued, overwrote, auditLog,
                   nclear>>
    /\ UsrOnly

\* UserHandler.GetAllUsers: GetAll, then 200. The copies are encoded into the
\* response and dropped.
GetAllUsers(c, rq) ==
    /\ upc[c] = "idle"
    /\ ncalls < MaxCalls
    /\ Route(rq) = "GetAllUsers"
    /\ ncalls' = ncalls + 1
    /\ ureq' = [ureq EXCEPT ![c] = rq]
    /\ LET r == GetAll(users, heap)
           out == [r EXCEPT !.status = StatusOK]
       IN
         /\ out.locked => usmu = "free"
         /\ uerr' = [uerr EXCEPT ![c] = out.err]
         /\ ustatus' = [ustatus EXCEPT ![c] = out.status]
         /\ heap' = Collect(out.heap, users, uret)
    /\ UNCHANGED <<users, idCounter, usmu, upc, uin, unewID, ucount, uret,
                   clrpc, ActiveUsers, issued, overwrote, auditLog, nclear>>
    /\ UsrOnly

\* UserHandler.GetUserByID: 400 when Atoi fails, 404 when GetByID fails, else 200.
GetUserByID(c, rq) ==
    /\ upc[c] = "idle"
    /\ ncalls < MaxCalls
    /\ Route(rq) = "GetUserByID"
    /\ ncalls' = ncalls + 1
    /\ ureq' = [ureq EXCEPT ![c] = rq]
    /\ LET r == GetByID(users, heap, AtoiVal(rq.seg))
           out == IF ~AtoiOk(rq.seg)
                  THEN Out(heap, {}, "invalid user ID", FALSE, StatusBadRequest)
                  ELSE [r EXCEPT !.status = IF r.err = "" THEN StatusOK
                                            ELSE StatusNotFound]
       IN
         /\ out.locked => usmu = "free"
         /\ uerr' = [uerr EXCEPT ![c] = out.err]
         /\ ustatus' = [ustatus EXCEPT ![c] = out.status]
         /\ heap' = Collect(out.heap, users, uret)
    /\ UNCHANGED <<users, idCounter, usmu, upc, uin, unewID, ucount, uret,
                   clrpc, ActiveUsers, issued, overwrote, auditLog, nclear>>
    /\ UsrOnly

\* UserHandler.UpdateUser: 400 when Atoi or the decoding fails, 404 when Update
\* answers "user not found", 400 for its other errors, else 200.
UpdateUser(c, rq) ==
    /\ upc[c] = "idle"
    /\ ncalls < MaxCalls
    /\ Route(rq) = "UpdateUser"
    /\ ncalls' = ncalls + 1
    /\ ureq' = [ureq EXCEPT ![c] = rq]
    /\ LET r == Update(users, heap, AtoiVal(rq.seg), rq.body[1])
           out == IF ~AtoiOk(rq.seg)
                  THEN Out(heap, {}, "invalid user ID", FALSE, StatusBadRequest)
                  ELSE IF rq.body = <<>>
                  THEN Out(heap, {}, "invalid request body", FALSE, StatusBadRequest)
                  ELSE [r EXCEPT !.status = IF r.err = "" THEN StatusOK
                                            ELSE IF r.err = "user not found"
                                                 THEN StatusNotFound
                                                 ELSE StatusBadRequest]
       IN
         /\ out.locked => usmu = "free"
         /\ uerr' = [uerr EXCEPT ![c] = out.err]
         /\ ustatus' = [ustatus EXCEPT ![c] = out.status]
         /\ heap' = Collect(out.heap, users, uret)
    /\ UNCHANGED <<users, idCounter, usmu, upc, uin, unewID, ucount, uret,
                   clrpc, ActiveUsers, issued, overwrote, auditLog, nclear>>
    /\ UsrOnly

\* UserHandler.DeleteUser: 400 when Atoi fails; UserService.Delete under the
\* lock: "user not found" (404), or delete(s.users, id) and
\* metrics.SetActiveUsers(len(s.users)) (200).
DeleteUser(c, rq) ==
    /\ upc[c] = "idle"
    /\ ncalls < MaxCalls
    /\ Route(rq) = "DeleteUser"
    /\ ncalls' = ncalls + 1
    /\ ureq' = [ureq EXCEPT ![c] = rq]
    /\ IF ~AtoiOk(rq.seg)
       THEN /\ uerr' = [uerr EXCEPT ![c] = "invalid user ID"]
            /\ ustatus' = [ustatus EXCEPT ![c] = StatusBadRequest]
            /\ UNCHANGED <<users, heap, ActiveUsers>>
       ELSE /\ usmu = "free"
            /\ IF AtoiVal(rq.seg) \notin DOMAIN users
               THEN /\ uerr' = [uerr EXCEPT ![c] = "user not found"]
                    /\ ustatus' = [ustatus EXCEPT ![c] = StatusNotFound]
                    /\ UNCHANGED <<users, heap, ActiveUsers>>
               ELSE /\ uerr' = [uerr EXCEPT ![c] = ""]
                    /\ ustatus' = [ustatus EXCEPT ![c] = StatusOK]
                    /\ users' = [i \in DOMAIN users \ {AtoiVal(rq.seg)} |-> users[i]]
                    /\ heap' = Collect(heap, users', uret)
                    /\ ActiveUsers' = Cardinality(DOMAIN users')
    /\ UNCHANGED <<idCounter, usmu, upc, uin, unewID, ucount, uret, clrpc,
                   issued, overwrote, auditLog, nclear>>
    /\ UsrOnly

\* UserHandler.CreateUser up to the validation in UserService.Create: 400 when
\* the body cannot be decoded; user.Sanitize(), user.Validate(); 400 when
\* Create returns the validation error.
CreateUser(c, rq) ==
    /\ upc[c] = "idle"
    /\ ncalls < MaxCalls
    /\ Route(rq) = "CreateUser"
    /\ ncalls' = ncalls + 1
    /\ ureq' = [ureq EXCEPT ![c] = rq]
    /\ unewID' = [unewID EXCEPT ![c] = 0]
    /\ IF rq.body = <<>>
       THEN /\ uerr' = [uerr EXCEPT ![c] = "invalid request body"]
            /\ ustatus' = [ustatus EXCEPT ![c] = StatusBadRequest]
            /\ UNCHANGED <<uin, upc>>
       ELSE /\ uin' = [uin EXCEPT ![c] = Sanitize(rq.body[1])]
            /\ uerr' = [uerr EXCEPT ![c] = Validate(Sanitize(rq.body[1]))]
            /\ IF Validate(Sanitize(rq.body[1])) = ""
               THEN /\ ustatus' = [ustatus EXCEPT ![c] = 0]
                    /\ upc' = [upc EXCEPT ![c] = "add"]
               ELSE /\ ustatus' = [ustatus EXCEPT ![c] = StatusBadRequest]
                    /\ UNCHANGED upc
    /\ UNCHANGED <<users, heap, idCounter, usmu, ucount, uret, clrpc,
                   ActiveUsers, issued, overwrote, auditLog, nclear>>
    /\ UsrOnly

\* newID := int(atomic.AddInt64(&s.idCounter, 1)); user.ID = newID.
\* The mutex is not held.
CreateAddInt64(c) ==
    /\ upc[c] = "add"
    /\ idCounter' = idCounter + 1
    /\ unewID' = [unewID EXCEPT ![c] = idCounter + 1]
    /\ uin' = [uin EXCEPT ![c].ID = idCounter + 1]
    /\ upc' = [upc EXCEPT ![c] = "store"]
    /\ UNCHANGED <<users, heap, usmu, ureq, ucount, uerr, uret, ustatus,
                   clrpc, ActiveUsers, issued, overwrote, auditLog, ncalls,
                   nclear>>
    /\ UsrOnly

\* s.mu.Lock(); s.users[newID] = &user; count := len(s.users); s.mu.Unlock().
\* &user is the pointer Create returns later.
CreateStore(c) ==
    /\ upc[c] = "store"
    /\ usmu = "free"
    /\ users' = [i \in DOMAIN users \cup {unewID[c]} |->
                    IF i = unewID[c] THEN Fresh(heap) ELSE users[i]]
    /\ uret' = [uret EXCEPT ![c] = {Fresh(heap)}]
    /\ heap' = Collect(heap @@ (Fresh(heap) :> uin[c]), users', uret')
    /\ ucount' = [ucount EXCEPT ![c] = Cardinality(DOMAIN users \cup {unewID[c]})]
    /\ overwrote' = IF unewID[c] \in DOMAIN users
                    THEN overwrote \cup {unewID[c]}
                    ELSE overwrote
    /\ upc' = [upc EXCEPT ![c] = "gauge"]
    /\ UNCHANGED <<idCounter, usmu, ureq, uin, unewID, uerr, ustatus, clrpc,
                   ActiveUsers, issued, auditLog, ncalls, nclear>>
    /\ UsrOnly

\* metrics.SetActiveUsers(float64(count))
CreateSetActiveUsers(c) ==
    /\ upc[c] = "gauge"
    /\ ActiveUsers' = ucount[c]
    /\ upc' = [upc EXCEPT ![c] = "ret"]
    /\ UNCHANGED <<users, heap, idCounter, usmu, ureq, uin, unewID, ucount,
                   uerr, uret, ustatus, clrpc, issued, overwrote, auditLog,
                   ncalls, nclear>>
    /\ UsrOnly

\* return &user, nil
CreateReturn(c) ==
    /\ upc[c] = "ret"
    /\ issued' = issued (+) SetToBag({unewID[c]})
    /\ upc' = [upc EXCEPT ![c] = "created"]
    /\ UNCHANGED <<users, heap, idCounter, usmu, ureq, uin, unewID, ucount,
                   uerr, uret, ustatus, clrpc, ActiveUsers, overwrote,
                   auditLog, ncalls, nclear>>
    /\ UsrOnly

\* CreateUser that logs the ID of the decoded user:
\* go logUserAction("CREATE", user.ID).
CreateUserLogRequest(c) ==
    /\ upc[c] = "created"
    /\ auditLog' = auditLog \cup {ureq[c].body[1].ID}
    /\ ustatus' = [ustatus EXCEPT ![c] = StatusCreated]
    /\ uret' = [uret EXCEPT ![c] = {}]
    /\ heap' = Collect(heap, users, uret')
    /\ upc' = [upc EXCEPT ![c] = "idle"]
    /\ UNCHANGED <<users, idCounter, usmu, ureq, uin, unewID, ucount, uerr,
                   clrpc, ActiveUsers, issued, overwrote, ncalls, nclear>>
    /\ UsrOnly

\* CreateUser after Create has returned: go utils.LogUserAction("CREATE",
\* savedUser.ID), go utils.SendUserNotification(...), then 201; savedUser is
\* no longer referenced by the handler.
CreateUserLog(c) ==
    /\ upc[c] = "created"
    /\ auditLog' = auditLog \cup {heap[CHOOSE a \in uret[c] : TRUE].ID}
    /\ ustatus' = [ustatus EXCEPT ![c] = StatusCreated]
    /\ uret' = [uret EXCEPT ![c] = {}]
    /\ heap' = Collect(heap, users, uret')
    /\ upc' = [upc EXCEPT ![c] = "idle"]
    /\ UNCHANGED <<users, idCounter, usmu, ureq, uin, unewID, ucount, uerr,
                   clrpc, ActiveUsers, issued, overwrote, ncalls, nclear>>
    /\ UsrOnly

\* Clear: s.mu.Lock(); s.users = make(map[int]*models.User)
ClearMap ==
    /\ clrpc = "idle"
    /\ nclear < MaxClears
    /\ usmu = "free"
    /\ usmu' = "clear"
    /\ users' = <<>>
    /\ heap' = Collect(heap, users', uret)
    /\ nclear' = nclear + 1
    /\ clrpc' = "ctr"
    /\ UNCHANGED <<idCounter, upc, ureq, uin, unewID, ucount, uerr, uret,
                   ustatus, ActiveUsers, issued, overwrote, auditLog, ncalls>>
    /\ UsrOnly

\* Clear: atomic.StoreInt64(&s.idCounter, 0)
ClearStoreInt64 ==
    /\ clrpc = "ctr"
    /\ idCounter' = 0
    /\ clrpc' = "gauge"
    /\ UNCHANGED <<users, heap, usmu, upc, ureq, uin, unewID, ucount, uerr,
                   uret, ustatus, ActiveUsers, issued, overwrote, auditLog,
                   ncalls, nclear>>
    /\ UsrOnly

\* Clear: metrics.SetActiveUsers(0), then the deferred s.mu.Unlock().
\* The IDs returned from here on are those "since the last Clear".
ClearReturn ==
    /\ clrpc = "gauge"
    /\ ActiveUsers' = 0
    /\ usmu' = "free"
    /\ clrpc' = "idle"
    /\ issued' = EmptyBag
    /\ overwrote' = {}
    /\ UNCHANGED <<users, heap, idCounter, upc, ureq, uin, unewID, ucount,
                   uerr, uret, ustatus, auditLog, ncalls, nclear>>
    /\ UsrOnly

\* Concurrent handlers and Clear: the requests that change the map.
UsrRequests ==
    {rq \in ApiRequests :
        \/ rq.method = "POST" /\ rq.body # <<>> /\ rq.body[1].ID = 9
        \/ rq.method = "DELETE" /\ rq.seg = <<"1">>}

UsrNext ==
    \/ \E c \in Creators : \E rq \in UsrRequests : CreateUser(c, rq)
    \/ \E c \in Creators : \E rq \in UsrRequests : DeleteUser(c, rq)
    \/ \E c \in Creators : CreateAddInt64(c)
    \/ \E c \in Creators : CreateStore(c)
    \/ \E c \in Creators : CreateSetActiveUsers(c)
    \/ \E c \in Creators : CreateReturn(c)
    \/ \E c \in Creators : CreateUserLog(c)
    \/ ClearMap
    \/ ClearStoreInt64
    \/ ClearReturn

UsrSpec == Init /\ [][UsrNext]_vars

\* One client sending every kind of request, one request after the other.
Client == "u1"

ApiNext ==
    \/ \E rq \in ApiRequests : NotFound(Client, rq)
    \/ \E rq \in ApiRequests : GetAllUsers(Client, rq)
    \/ \E rq \in ApiRequests : GetUserByID(Client, rq)
    \/ \E rq \in ApiRequests : UpdateUser(Client, rq)
    \/ \E rq \in ApiRequests : DeleteUser(Client, rq)
    \/ \E rq \in ApiRequests : CreateUser(Client, rq)
    \/ CreateAddInt64(Client)
    \/ CreateStore(Client)
    \/ CreateSetActiveUsers(Client)
    \/ CreateReturn(Client)
    \/ CreateUserLog(Client)

ApiSpec == Init /\ [][ApiNext]_vars

\* C30: every ID returned by a successful Create is strictly positive and
\* differs from the ID returned by every other Create since the last Clear,
\* and no Create stores its user at an ID a stored user already has.
C30_DistinctIDs ==
    /\ \A i \in BagToSet(issued) : i > 0 /\ CopiesIn(i, issued) = 1
    /\ overwrote = {}

\* ===================================================== dispatcher, further claims
\* No submit call is in progress.
NoSubmit == \A p \in Procs : ppc[p] = "idle"

\* C34 as stated: the counter is never negative and at least the number of
\* queued payloads, and whenever no submit is in progress it equals the
\* number of payloads enqueued whose write to the primary sink has not
\* completed.
C34_PendingCounter ==
    \A k \in Kinds :
        /\ wg[k] >= 0
        /\ wg[k] >= Len(logChan[k])
        /\ NoSubmit => wg[k] = Len(enq[k]) - Len(Primary(k))

\* 1 while the consumer has written an entry and not yet called wg.Done().
Unacknowledged(k) == IF cpc[k] = "done" THEN 1 ELSE 0

\* C34 amended: the counter is never negative and at least the number of
\* queued payloads; whenever no submit is in progress it equals the number
\* of payloads enqueued for which the consumer has not yet called wg.Done():
\* those not yet written plus the one written and not yet acknowledged.
C34_PendingCounterAmended ==
    \A k \in Kinds :
        /\ wg[k] >= 0
        /\ wg[k] >= Len(logChan[k])
        /\ NoSubmit => wg[k] = Len(enq[k]) - Len(Primary(k)) + Unacknowledged(k)

\* Between Printf and wg.Done(): everything enqueued is written, the counter
\* is still 1, and no submit is in progress.
C34_Witness ==
    \E k \in Kinds :
        /\ NoSubmit
        /\ cpc[k] = "done"
        /\ Len(enq[k]) >= 2
        /\ Len(Primary(k)) = Len(enq[k])
        /\ wg[k] = 1

\* C35: the number of payloads held in a dispatcher queue never exceeds the
\* capacity given at construction, for concurrent producers and any
\* consumer speed.
C35_QueueBounded == \A k \in Kinds : Len(logChan[k]) <= Cap

\* The queue is full after the calls of one producer, the consumer has not
\* received anything and the other producer is at its select.
C35_Witness ==
    \E k \in Kinds :
        /\ Len(logChan[k]) = Cap
        /\ cpc[k] = "recv"
        /\ \E p \in Procs : ppc[p] = "select" /\ pkind[p] = k
        /\ \E p \in Procs : ppc[p] = "idle"

\* ------------------------------------------ Close with submits still running
\* A handler has started a submit in a goroutine of its own (go
\* utils.LogUserAction(...)): the call runs whatever Close is doing.
DetachedSubmit(p) ==
    /\ Running
    /\ ppc[p] = "idle"
    /\ nsub < MaxSubmits
    /\ nsub' = nsub + 1
    /\ pid' = [pid EXCEPT ![p] = nsub + 1]
    /\ pkind' = [pkind EXCEPT ![p] = "audit"]
    /\ subs' = [subs EXCEPT !["audit"] = @ \cup {nsub + 1}]
    /\ ppc' = [ppc EXCEPT ![p] = "get"]
    /\ UNCHANGED <<dispVars, enq, closepc, mainpc, ext>>

\* select, case chan <- entry on a closed channel: the send panics and the
\* panic of a goroutine ends the process.
SelectClosed(p) ==
    /\ Running
    /\ ppc[p] = "select"
    /\ closed[pkind[p]]
    /\ ppc' = [ppc EXCEPT ![p] = "panic"]
    /\ mainpc' = "exited"
    /\ UNCHANGED <<dispVars, pkind, pid, nsub, subs, enq, closepc, ext>>

\* The owner calls Close while submits may be running.
DetachedCloseCall ==
    /\ Running
    /\ closepc = "idle"
    /\ created["audit"]
    /\ closepc' = "wait"
    /\ UNCHANGED <<dispVars, prodVars, enq, mainpc, ext>>

DetachedNext ==
    \/ \E p \in Procs : DetachedSubmit(p)
    \/ \E p \in Procs : SubmitStep(p)
    \/ \E p \in Procs : SelectClosed(p)
    \/ Consumer("audit")
    \/ DetachedCloseCall
    \/ CloseWait
    \/ CloseChan

DetachedSpec == Init /\ [][DetachedNext]_vars

\* C36: Close is safe against submits that are still running: no payload is
\* sent on the closed queue, and no payload stays in the queue once the
\* consumer loop has ended.
C36_CloseSafe ==
    /\ \A p \in Procs : ppc[p] # "panic"
    /\ cpc["audit"] = "exit" => logChan["audit"] = <<>>

\* --------------------------------------------- requests one after another
\* A handler runs go utils.LogUserAction(...) for its request and returns:
\* the goroutine exists and has not run yet.  Requests are handled one after
\* another; the payload is the number of the request.
HandlerGo(p) ==
    /\ Running
    /\ ppc[p] = "idle"
    /\ nsub < MaxSubmits
    /\ nsub' = nsub + 1
    /\ pid' = [pid EXCEPT ![p] = nsub + 1]
    /\ pkind' = [pkind EXCEPT ![p] = "audit"]
    /\ subs' = [subs EXCEPT !["audit"] = @ \cup {nsub + 1}]
    /\ ppc' = [ppc EXCEPT ![p] = "spawned"]
    /\ UNCHANGED <<dispVars, enq, closepc, mainpc, ext>>

\* The goroutine is scheduled and calls utils.LogUserAction.
GoStart(p) ==
    /\ Running
    /\ ppc[p] = "spawned"
    /\ ppc' = [ppc EXCEPT ![p] = "get"]
    /\ UNCHANGED <<dispVars, pkind, pid, nsub, subs, enq, closepc, mainpc, ext>>

SerialNext ==
    \/ \E p \in Procs : HandlerGo(p)
    \/ \E p \in Procs : GoStart(p)
    \/ \E p \in Procs : SubmitStep(p)
    \/ ConsumerLoop("audit")

SerialSpec == Init /\ [][SerialNext]_vars

Increasing(s) == \A i, j \in 1..Len(s) : i < j => s[i] < s[j]

\* C37: the audit events of requests handled strictly one after another are
\* enqueued, and written to the primary sink, in the order of the requests.
C37_RequestOrder ==
    /\ Increasing(enq["audit"])
    /\ Increasing(Primary("audit"))

\* ------------------------------------------------ content of overflow records
\* C38: the overflow record of a payload contains every field the caller
\* submitted for it, with the submitted value, for each of the three kinds.
C38_OverflowKeepsFields ==
    \A k \in Kinds :
        \A n \in 1..Len(tsLines[k]) :
            tsLines[k][n].tag = "OVERFLOW" =>
                \A name \in DOMAIN Arguments(k, tsLines[k][n].id) :
                    /\ name \in DOMAIN tsLines[k][n].shown
                    /\ tsLines[k][n].shown[name] = Arguments(k, tsLines[k][n].id)[name]

\* The objects the map points to, and the stored users by ID.
Stored == {users[i] : i \in DOMAIN users}
StoredUsers == [i \in DOMAIN users |-> heap[users[i]]]

\* C31: every user returned by Create, GetByID, GetAll or Update is a copy,
\* never the object the store holds: the pointer a returned Create has handed
\* to its caller is not a stored one, and neither are the pointers GetByID,
\* GetAll and Update would return in this state.
C31_ReturnedCopies ==
    /\ \A c \in Creators : upc[c] = "created" => uret[c] \cap Stored = {}
    /\ GetAll(users, heap).refs \cap Stored = {}
    /\ \A i \in DOMAIN users :
        /\ GetByID(users, heap, i).refs \cap Stored = {}
        /\ \A u \in UserInputs : Update(users, heap, i, u).refs \cap Stored = {}

\* C39: whenever no user-service operation is in progress, the active-users
\* gauge equals the number of stored users, for every interleaving of Create
\* and Delete calls (no Clear has run).
C39_GaugeMatchesStore ==
    (nclear = 0 /\ \A c \in Creators : upc[c] = "idle")
        => ActiveUsers = Cardinality(DOMAIN users)

\* A request of the client was answered in this step (a created user is
\* answered by CreateUserLog).
Answered ==
    \/ ncalls' = ncalls + 1 /\ upc'[Client] = "idle"
    \/ upc[Client] = "created" /\ upc'[Client] = "idle"

\* C40: a failing operation leaves the state unchanged: a Create rejected by
\* validation, an Update of a missing or invalid user and a Delete of a
\* missing ID change no stored user, remove and store nothing and leave the
\* ID counter alone; a successful Update keeps the set of stored IDs, the ID
\* of every stored user, and every user but the one with the given ID.
C40_Step ==
    /\ (Answered /\ ustatus'[Client] \in {StatusBadRequest, StatusNotFound})
        => StoredUsers' = StoredUsers /\ idCounter' = idCounter
    /\ (Answered /\ ustatus'[Client] = StatusOK /\ ureq'[Client].method = "PUT")
        => /\ DOMAIN StoredUsers' = DOMAIN StoredUsers
           /\ idCounter' = idCounter
           /\ \A i \in DOMAIN StoredUsers :
                /\ StoredUsers'[i].ID = StoredUsers[i].ID
                /\ i # AtoiVal(ureq'[Client].seg) => StoredUsers'[i] = StoredUsers[i]
C40_FailuresChangeNothing == [][C40_Step]_vars

\* An Update of user 1 has succeeded and changed the stored name, with a
\* second user stored.
C40_Witness ==
    /\ upc[Client] = "idle"
    /\ ustatus[Client] = StatusOK
    /\ ureq[Client].method = "PUT"
    /\ DOMAIN users = {1, 2}
    /\ StoredUsers[1].Name = <<"B", "o">>
    /\ StoredUsers[2].Name = <<"A", "l">>

\* C32: the CREATE event of a successful creation carries the ID assigned to
\* the created user and never 0: an ID is added to the audit events only by a
\* handler whose Create has returned, it is the ID that Create drew, and it
\* is at least 1.
C32_Step ==
    auditLog' # auditLog
        => \E c \in Creators :
            /\ upc[c] = "created"
            /\ unewID[c] >= 1
            /\ auditLog' = auditLog \cup {unewID[c]}
            /\ StoredUsers[unewID[c]].ID = unewID[c]
C32_CreateEventHasID == [](0 \notin auditLog) /\ [][C32_Step]_vars

\* A user decoded with ID 0 was created, and its CREATE event carries ID 1.
C32_Witness ==
    /\ upc[Client] = "idle"
    /\ ustatus[Client] = StatusCreated
    /\ ureq[Client].body[1].ID = 0
    /\ auditLog = {1}

\* The status the user endpoints are to answer a request with, given the
\* stored users: 400 for an ID that is not a number, for a body that cannot
\* be decoded and for a user that fails validation, 404 for an ID that is not
\* stored, 201 for a create and 200 for every other success.
ExpectedStatus(rq, us) ==
    IF rq.seg # <<>> /\ ~AtoiOk(rq.seg) THEN StatusBadRequest
    ELSE IF rq.method \in {"POST", "PUT"} /\ rq.body = <<>> THEN StatusBadRequest
    ELSE IF rq.method \in {"POST", "PUT"} /\ Validate(Sanitize(rq.body[1])) # ""
         THEN StatusBadRequest
    ELSE IF rq.seg # <<>> /\ AtoiVal(rq.seg) \notin DOMAIN us THEN StatusNotFound
    ELSE IF rq.method = "POST" THEN StatusCreated
    ELSE StatusOK

\* C33: the user endpoints map failures to fixed statuses: an undecodable
\* body, an ID that is not a number and a user failing validation give 400, a
\* get, update or delete of an ID that is not stored gives 404, a successful
\* create gives 201 and every other success 200.
C33_Step ==
    /\ (ncalls' = ncalls + 1 /\ upc'[Client] = "idle")
        => ustatus'[Client] = ExpectedStatus(ureq'[Client], users)
    /\ (ncalls' = ncalls + 1 /\ upc'[Client] # "idle")
        => ExpectedStatus(ureq'[Client], users) = StatusCreated
    /\ (upc[Client] = "created" /\ upc'[Client] = "idle")
        => ustatus'[Client] = StatusCreated
C33_StatusMapping == [][C33_Step]_vars

====
